---- MODULE Spec2Model ----
(***************************************************************************)
(* Model of the bitmap loader of snake.cpp (class Image and the byte       *)
(* extraction helpers in front of it).  A file is a sequence of bytes; the *)
(* loader reads it through seek/read pairs and decodes it into the pixel   *)
(* vector of an Image object.  A 32-bit word is modelled as the set of its *)
(* set bit positions (0 = least significant), so that masks above 2^31     *)
(* keep their width; numeric header fields are converted to integers.     *)
(***************************************************************************)
EXTENDS Integers, Sequences, FiniteSets, TLC

(* ----------------------------- bounds ---------------------------------- *)

MaxWidth == 3
MaxRows == 2
MaxPaletteWidth == 5

(* ------------------------- program constants ---------------------------- *)

bitmapFileMagic == 19778
colorSpaceSRGBMagic == 1934772034
size_bytes == 14
BITMAPCOREHEADER_SIZE_BYTES == 12
BITMAPINFOHEADER_SIZE_BYTES == 40
BITMAPV2INFOHEADER_SIZE_BYTES == 52
BITMAPV3INFOHEADER_SIZE_BYTES == 56
BITMAPV4HEADER_SIZE_BYTES == 108
BITMAPV5HEADER_SIZE_BYTES == 124
BIHO_HEADER_SIZE == 0
BIHO_BMP_WIDTH == 4
BIHO_BMP_HEIGHT == 8
BIHO_NUM_COLOR_PLANES == 12
BIHO_BITS_PER_PIXEL == 14
BIHO_COMPRESSION == 16
BIHO_RAW_IMAGE_SIZE == 20
BIHO_HORIZONTAL_RESOLUTION == 24
BIHO_VERTICAL_RESOLUTION == 28
BIHO_NUM_PALETTE_COLORS == 32
BIHO_NUM_IMPORTANT_COLORS == 36
BIHO_RED_MASK == 40
BIHO_GREEN_MASK == 44
BIHO_BLUE_MASK == 48
BIHO_ALPHA_MASK == 52
BIHO_COLOR_SPACE_MAGIC == 56
BI_RGB == 0
BI_RLE8 == 1
BI_BITFIELDS == 3

(* ------------------------- words and bytes ------------------------------ *)

Min(a, b) == IF a < b THEN a ELSE b
Max(a, b) == IF a > b THEN a ELSE b
Abs(a) == IF a < 0 THEN 0 - a ELSE a

\* the set bits of one byte
ByteBits(b) == {i \in 0..7 : (b \div (2^i)) % 2 = 1}

\* the set bits of a non-negative integer below 2^31
BitsOf(n) == {i \in 0..30 : (n \div (2^i)) % 2 = 1}

RECURSIVE SumBits(_, _)
SumBits(bits, k) ==
  IF k < 0 THEN 0
  ELSE (IF k \in bits THEN 2^k ELSE 0) + SumBits(bits, k - 1)

\* value of a word read as an unsigned integer (bit 31 clear in every
\* numeric field of the files that are loaded)
AsUint(bits) == SumBits(bits, 31)

\* value of a 32-bit word read as int32_t (two's complement)
AsInt32(bits) ==
  IF 31 \in bits THEN (SumBits(bits, 30) - 2147483647) - 1
  ELSE SumBits(bits, 30)

\* truncation of a word to uint8_t
AsUint8(bits) == SumBits({b \in bits : b < 8}, 7)

\* word & mask, word >> shift
BitAnd(x, y) == x \cap y
ShiftRight(x, s) == {b - s : b \in {c \in x : c >= s}}

RECURSIVE reverseLoop(_, _, _, _, _)
reverseLoop(bytes, off, count, i, swaps) ==
  IF i >= swaps THEN bytes
  ELSE LET tmp == bytes[off + i + 1]
           b1 == [bytes EXCEPT ![off + i + 1] = bytes[off + (count - 1 - i) + 1]]
           \* bytes[count - i] = tmp: for i = 0 this is one past the word; a
           \* write past the end of the array lands outside the buffer
           b2 == IF off + (count - i) + 1 <= Len(b1)
                 THEN [b1 EXCEPT ![off + (count - i) + 1] = tmp]
                 ELSE b1
       IN reverseLoop(b2, off, count, i + 1, swaps)

\* reverseBytes(bytes + off, count), returning the buffer it leaves behind
reverseBytes(bytes, off, count) ==
  LET swaps == IF count % 2 = 1 THEN (count - 1) \div 2 ELSE count \div 2
  IN reverseLoop(bytes, off, count, 0, swaps)

\* *(reinterpret_cast<uintN_t*>(bytes + off)) on a host of the given byte order
NativeWord(bytes, off, n, littleEndian) ==
  UNION {{i + 8 * (IF littleEndian THEN k ELSE n - 1 - k) :
            i \in ByteBits(bytes[off + k + 1])} : k \in 0..(n - 1)}

\* extractLittleEndianUint16/Uint32/Int32(bytes + off): the word and the
\* buffer afterwards (reverseBytes works in place)
WordAndBuffer(b, off, n, littleEndian) ==
  [v |-> NativeWord(b, off, n, littleEndian), buf |-> b]

extractLittleEndian(bytes, off, n, littleEndian) ==
  WordAndBuffer(IF littleEndian THEN bytes ELSE reverseBytes(bytes, off, n),
                off, n, littleEndian)

\* a run of extractions on one buffer, in source order
RECURSIVE extractFields(_, _, _)
ThenFields(e, fields, littleEndian) ==
  <<e.v>> \o extractFields(e.buf, fields, littleEndian)

extractFields(bytes, fields, littleEndian) ==
  IF fields = <<>> THEN <<>>
  ELSE ThenFields(extractLittleEndian(bytes, Head(fields)[1], Head(fields)[2],
                                      littleEndian),
                  Tail(fields), littleEndian)

(* ----------------------------- the stream ------------------------------- *)

\* a local array that has not been written: junk is the pattern its bytes hold
Uninitialized(n, junk) == [k \in 1..n |-> junk[((k - 1) % 2) + 1]]

\* file.seekg(pos); file.read(buf, n) on a stream whose state is `good`:
\* a failed stream reads nothing, a short read stores what is there and fails
seekRead(f, good, pos, n, buf) ==
  IF ~good \/ pos < 0 THEN [buf |-> buf, good |-> FALSE]
  ELSE LET avail == Max(0, Min(n, Len(f) - pos))
       IN [buf |-> [k \in 1..Len(buf) |->
                      IF k <= avail THEN f[pos + k] ELSE buf[k]],
           good |-> (avail = n)]

(* --------------------------- header parsing ----------------------------- *)

\* the assignments of extractFileHeader, lines 829-831
FileHeaderOf(vs, streamGood) ==
  [header |-> [_fileMagic |-> AsUint(vs[1]),
               _fileSize |-> AsUint(vs[2]),
               _pixelOffset_bytes |-> AsUint(vs[3])],
   good |-> streamGood]

\* the magic read with the most significant byte first
FileHeaderFrom_MagicBigEndian(rd, littleEndian) ==
  FileHeaderOf(<<NativeWord(rd.buf, 0, 2, ~littleEndian)>>
                 \o Tail(extractFields(rd.buf, << <<0, 2>>, <<2, 4>>, <<10, 4>> >>,
                                       littleEndian)),
               rd.good)

\* extractFileHeader, lines 829-831, on the buffer the read left
FileHeaderFrom(rd, littleEndian) ==
  FileHeaderOf(extractFields(rd.buf, << <<0, 2>>, <<2, 4>>, <<10, 4>> >>, littleEndian),
               rd.good)

\* Image::extractFileHeader
extractFileHeader(f, streamGood, junk, littleEndian) ==
  FileHeaderFrom(seekRead(f, streamGood, 0, size_bytes, Uninitialized(size_bytes, junk)),
                 littleEndian)

\* the assignments of extractAppendedRGBMasks, lines 899-901
MasksOf(vs, streamGood) ==
  [_redMask |-> vs[1], _greenMask |-> vs[2], _blueMask |-> vs[3], good |-> streamGood]

MasksFrom(rd, littleEndian) ==
  MasksOf(extractFields(rd.buf, << <<0, 4>>, <<4, 4>>, <<8, 4>> >>, littleEndian), rd.good)

\* Image::extractAppendedRGBMasks
extractAppendedRGBMasks(f, streamGood, junk, littleEndian) ==
  MasksFrom(seekRead(f, streamGood, size_bytes + BIHO_RED_MASK,
                     BIHO_ALPHA_MASK - BIHO_RED_MASK, Uninitialized(12, junk)),
            littleEndian)

\* BitmapInfoHeader after memset(&header, 0, sizeof(BitmapInfoHeader))
ZeroInfoHeader ==
  [_headerSize_bytes |-> 0, _bmpWidth_px |-> 0, _bmpHeight_px |-> 0,
   _numColorPlanes |-> 0, _bitsPerPixel |-> 0, _compression |-> 0,
   _rawImageSize_bytes |-> 0, _horizontalResolution_pxPm |-> 0,
   _verticalResolution_pxPm |-> 0, _numPaletteColors |-> 0,
   _numImportantColors |-> 0, _redMask |-> {}, _greenMask |-> {},
   _blueMask |-> {}, _alphaMask |-> {}, _colorSpaceMagic |-> {}]

\* the case labels of the switch in extractInfoHeader, with fallthrough:
\* the set of header sizes that reach the code under the given label
ReachesCase(label) ==
  {h \in {BITMAPV5HEADER_SIZE_BYTES, BITMAPV4HEADER_SIZE_BYTES,
          BITMAPV3INFOHEADER_SIZE_BYTES, BITMAPV2INFOHEADER_SIZE_BYTES,
          BITMAPINFOHEADER_SIZE_BYTES} : h >= label}

\* extractInfoHeader is a run of stages over st = [buf, good, hdr]: the 40 byte
\* array `bytes`, the stream state and the header filled so far

\* header._field = extractLittleEndianUint32(bytes) after a 4 byte read (rd)
StoreWord(hdr, field, rd, e) ==
  [buf |-> e.buf, good |-> rd.good, hdr |-> [hdr EXCEPT ![field] = e.v]]

ReadWordInto(hdr, field, rd, littleEndian) ==
  StoreWord(hdr, field, rd, extractLittleEndian(rd.buf, 0, 4, littleEndian))

\* lines 841-843: the header size
SizeStage(f, st, littleEndian) ==
  ReadWordInto(st.hdr, "_headerSize_bytes",
               seekRead(f, st.good, size_bytes, 4, st.buf), littleEndian)

\* lines 848-854: case V5, case V4
ColorSpaceStage(f, st, littleEndian) ==
  IF AsUint(st.hdr._headerSize_bytes) \in ReachesCase(BITMAPV4HEADER_SIZE_BYTES)
  THEN ReadWordInto(st.hdr, "_colorSpaceMagic",
                    seekRead(f, st.good, size_bytes + BIHO_COLOR_SPACE_MAGIC, 4, st.buf),
                    littleEndian)
  ELSE st

\* lines 858-863: case V3
AlphaStage(f, st, littleEndian) ==
  IF AsUint(st.hdr._headerSize_bytes) \in ReachesCase(BITMAPV3INFOHEADER_SIZE_BYTES)
  THEN ReadWordInto(st.hdr, "_alphaMask",
                    seekRead(f, st.good, size_bytes + BIHO_ALPHA_MASK, 4, st.buf),
                    littleEndian)
  ELSE st

StoreMasks(st, m) ==
  [buf |-> st.buf, good |-> m.good,
   hdr |-> [st.hdr EXCEPT !._redMask = m._redMask, !._greenMask = m._greenMask,
                          !._blueMask = m._blueMask]]

\* the masks read under every case label
MaskStage_EveryHeader(f, st, junk, littleEndian) ==
  StoreMasks(st, extractAppendedRGBMasks(f, st.good, junk, littleEndian))

\* lines 867-870: case V2
MaskStage(f, st, junk, littleEndian) ==
  IF AsUint(st.hdr._headerSize_bytes) \in ReachesCase(BITMAPV2INFOHEADER_SIZE_BYTES)
  THEN StoreMasks(st, extractAppendedRGBMasks(f, st.good, junk, littleEndian))
  ELSE st

\* lines 879-888
StoreBase(hdr, rd, vs) ==
  [buf |-> rd.buf, good |-> rd.good,
   hdr |-> [hdr EXCEPT
              !._bmpWidth_px = AsInt32(vs[1]),
              !._bmpHeight_px = AsInt32(vs[2]),
              !._numColorPlanes = AsUint(vs[3]),
              !._bitsPerPixel = AsUint(vs[4]),
              !._compression = AsUint(vs[5]),
              !._rawImageSize_bytes = AsUint(vs[6]),
              !._horizontalResolution_pxPm = AsInt32(vs[7]),
              !._verticalResolution_pxPm = AsInt32(vs[8]),
              !._numPaletteColors = AsUint(vs[9]),
              !._numImportantColors = AsUint(vs[10])]]

ReadBaseInto(hdr, rd, littleEndian) ==
  StoreBase(hdr, rd,
    extractFields(rd.buf,
      << <<BIHO_BMP_WIDTH, 4>>, <<BIHO_BMP_HEIGHT, 4>>,
         <<BIHO_NUM_COLOR_PLANES, 2>>, <<BIHO_BITS_PER_PIXEL, 2>>,
         <<BIHO_COMPRESSION, 4>>, <<BIHO_RAW_IMAGE_SIZE, 4>>,
         <<BIHO_HORIZONTAL_RESOLUTION, 4>>, <<BIHO_VERTICAL_RESOLUTION, 4>>,
         <<BIHO_NUM_PALETTE_COLORS, 4>>, <<BIHO_NUM_IMPORTANT_COLORS, 4>> >>,
      littleEndian))

\* lines 874-888: case BITMAPINFOHEADER
BaseStage(f, st, littleEndian) ==
  IF AsUint(st.hdr._headerSize_bytes) \in ReachesCase(BITMAPINFOHEADER_SIZE_BYTES)
  THEN ReadBaseInto(st.hdr,
                    seekRead(f, st.good, size_bytes, BITMAPINFOHEADER_SIZE_BYTES, st.buf),
                    littleEndian)
  ELSE st

\* the header size is kept as a number, like the other numeric fields
InfoHeaderOf(st) ==
  [header |-> [st.hdr EXCEPT !._headerSize_bytes = AsUint(@)], good |-> st.good]

\* Image::extractInfoHeader
extractInfoHeader(f, streamGood, junk, littleEndian) ==
  InfoHeaderOf(
    BaseStage(f,
      MaskStage(f,
        AlphaStage(f,
          ColorSpaceStage(f,
            SizeStage(f, [buf |-> Uninitialized(BITMAPINFOHEADER_SIZE_BYTES, junk),
                          good |-> streamGood, hdr |-> ZeroInfoHeader],
                      littleEndian),
            littleEndian),
          littleEndian),
        junk, littleEndian),
      littleEndian))

(* ---------------------------- pixel decoding ---------------------------- *)

\* (float)n: the nearest value with a 24 bit significand, ties to even
RECURSIVE Exponent(_, _)
Exponent(n, e) == IF e >= 30 \/ n < 2^(e + 1) THEN e ELSE Exponent(n, e + 1)

ToFloat(n) ==
  LET a == Abs(n)
      ulp == 2^(Exponent(a, 0) - 23)
      q == a \div ulp
      r == a % ulp
      up == (2 * r > ulp) \/ (2 * r = ulp /\ q % 2 = 1)
      m == IF up THEN (q + 1) * ulp ELSE q * ulp
  IN IF a < 16777216 THEN n ELSE IF n < 0 THEN 0 - m ELSE m

\* int rowSize_bytes = std::ceil((bitsPerPixel * width) / 32.f) * 4.f
RowSizeBytes(bitsPerPixel, width) ==
  (0 - ((0 - ToFloat(bitsPerPixel * width)) \div 32)) * 4

\* a scan that stops at the highest set bit
ScanShift_HighestSetBit(mask, shift) ==
  IF mask = {} THEN 0 - 1 ELSE CHOOSE b \in mask : \A c \in mask : c <= b

\* while((mask & (0x01 << shift)) == 0) ++shift, from the given shift; the
\* loop has no exit for a mask without a set bit (reported as -1)
RECURSIVE ScanShift(_, _)
ScanShift(mask, shift) ==
  IF shift >= 32 THEN 0 - 1
  ELSE IF shift \in mask THEN shift ELSE ScanShift(mask, shift + 1)

\* a read of row[k] (k from 0): past the allocation it yields what is there
RowByte(row, k, junk) ==
  IF k + 1 <= Len(row) THEN row[k + 1] ELSE junk[(k % 2) + 1]

\* std::vector::operator[] on the palette: unchecked
PaletteAt(palette, index, junk) ==
  IF index + 1 <= Len(palette) THEN palette[index + 1]
  ELSE <<junk[1], junk[2], junk[1], junk[2]>>

\* uint8_t index = (byte & (mask << shift)) >> shift
PaletteIndex(byte, mask, shift) ==
  AsUint8(ShiftRight(BitAnd(ByteBits(byte), {b + shift : b \in mask}), shift))

\* the shift with the leftmost pixel in the least significant bits
PixelShift_LeastSignificantFirst(bitsPerPixel, numPixelsPerByte, bytePixelNo) ==
  bitsPerPixel * bytePixelNo

\* int shift = bitsPerPixel * (numPixelsPerByte - 1 - bytePixelNo)
PixelShift(bitsPerPixel, numPixelsPerByte, bytePixelNo) ==
  bitsPerPixel * (numPixelsPerByte - 1 - bytePixelNo)

\* the while loop over one row in extractPalettedPixels
RECURSIVE PalettedLoop(_, _, _, _, _, _, _, _, _, _)
PalettedLoop(row, hdr, numPixelsPerByte, mask, palette, junk, numPixelsExtracted, byteNo, bytePixelNo, byte) ==
  IF ~(numPixelsExtracted < hdr._bmpWidth_px) THEN <<>>
  ELSE LET next == bytePixelNo >= numPixelsPerByte
           byteNo1 == IF next THEN byteNo + 1 ELSE byteNo
           byte1 == IF next THEN RowByte(row, byteNo1, junk) ELSE byte
           bytePixelNo1 == IF next THEN 0 ELSE bytePixelNo
           shift == PixelShift(hdr._bitsPerPixel, numPixelsPerByte, bytePixelNo1)
           index == PaletteIndex(byte1, mask, shift)
       IN <<PaletteAt(palette, index, junk)>> \o
          PalettedLoop(row, hdr, numPixelsPerByte, mask, palette, junk,
                       numPixelsExtracted + 1, byteNo1, bytePixelNo1 + 1, byte1)

PalettedRowPixels(row, hdr, numPixelsPerByte, mask, palette, junk) ==
  PalettedLoop(row, hdr, numPixelsPerByte, mask, palette, junk,
               0, 0, 0, RowByte(row, 0, junk))

\* rawPixelBytes of pixel j: byte k of the pixel at bits 8k..8k+7
RawPixelBytes(row, j, pixelSize_bytes, junk) ==
  UNION {{b + (k * 8) : b \in ByteBits(RowByte(row, (j * pixelSize_bytes) + k, junk))} :
           k \in 0..(pixelSize_bytes - 1)}

\* uint8_t channel = (rawPixelBytes & mask) >> shift
Channel(raw, mask, shift) == AsUint8(ShiftRight(BitAnd(raw, mask), shift))

\* the loop over the pixels of one row in extractPixels
DirectRowPixels(row, hdr, d, junk) ==
  [j \in 1..Max(0, hdr._bmpWidth_px) |->
     LET raw == RawPixelBytes(row, j - 1, d.pixelSize_bytes, junk)
     IN <<Channel(raw, hdr._redMask, d.redShift),
          Channel(raw, hdr._greenMask, d.greenShift),
          Channel(raw, hdr._blueMask, d.blueShift),
          Channel(raw, hdr._alphaMask, d.alphaShift)>>]

\* the loop of extractColorPalette, from entry i on; bytes is its 4 byte buffer
RECURSIVE PaletteLoop(_, _, _, _, _, _)
PaletteLoop(f, good, pos, bytes, i, n) ==
  IF ~(i < n) THEN [palette |-> <<>>, good |-> good]
  ELSE LET rd == seekRead(f, good, pos, 4, bytes)
           rest == PaletteLoop(f, rd.good, pos + 4, rd.buf, i + 1, n)
       IN [palette |-> <<<<rd.buf[3], rd.buf[2], rd.buf[1], rd.buf[4]>>>> \o rest.palette,
           good |-> rest.good]

\* Image::extractColorPalette (the uint8_t counter never reaches a count
\* above 255: see BeginPalettedPixels)
extractColorPalette(f, good, hdr, junk) ==
  PaletteLoop(f, good, size_bytes + hdr._headerSize_bytes,
              Uninitialized(4, junk), 0, hdr._numPaletteColors)

(* ------------------------------ the files ------------------------------- *)
(* The files that are loaded are laid out as the BMP format lays them out: *)
(* a 14 byte file header, the info header of the declared size, the RGB    *)
(* masks appended to a 40 byte header when the compression is BI_BITFIELDS,*)
(* the palette, and the rows of the image padded to 4 bytes, bottom row    *)
(* first when the height is positive, top row first when it is negative.   *)

Enc16(n) == <<n % 256, (n \div 256) % 256>>

Enc32(n) ==
  LET m == IF n < 0 THEN (n + 2147483647) + 1 ELSE n
  IN <<m % 256, (m \div 256) % 256, (m \div 65536) % 256,
       ((m \div 16777216) % 128) + (IF n < 0 THEN 128 ELSE 0)>>

EncBits(bits) ==
  [k \in 1..4 |-> SumBits({b - (8 * (k - 1)) : b \in {c \in bits : c \div 8 = k - 1}}, 7)]

\* the stride of a row as the format defines it
FormatStride(bpp, width) == (((bpp * width) + 31) \div 32) * 4

\* byte k of image row r (row 0 is the bottom row of the image)
ContentByte(p, r, k) ==
  LET v == (p.seed + (p.step * ((r * FormatStride(p.bpp, p.width)) + k))) % 256
  IN IF p.bpp = 8 /\ k < p.width THEN v % p.npal ELSE v

PaletteEntryBytes(k) == <<(16 * k + 1) % 256, (16 * k + 2) % 256, (16 * k + 3) % 256, 255 - k>>

InfoBlock(p) ==
  Enc32(p.hsize) \o Enc32(p.width) \o Enc32(p.height) \o Enc16(1) \o Enc16(p.bpp)
  \o Enc32(p.comp) \o Enc32(16) \o Enc32(2835) \o Enc32(2834) \o Enc32(p.ncolors)
  \o Enc32(3)
  \o EncBits(p.r) \o EncBits(p.g) \o EncBits(p.b) \o EncBits(p.a) \o Enc32(p.cs)
  \o [k \in 1..64 |-> 0]

RECURSIVE Concat(_)
Concat(ss) == IF ss = <<>> THEN <<>> ELSE Head(ss) \o Concat(Tail(ss))

FileOf(p) ==
  LET blockLen == IF p.hsize = 40 /\ p.comp = BI_BITFIELDS /\ p.bpp > 8
                  THEN 52 ELSE p.hsize
      block == SubSeq(InfoBlock(p), 1, blockLen)
      pal == [i \in 1..(4 * p.npal) |-> PaletteEntryBytes((i - 1) \div 4)[((i - 1) % 4) + 1]]
      rows == Abs(p.height)
      stride == FormatStride(p.bpp, p.width)
      data == Concat([fr \in 1..rows |->
                 [k \in 1..stride |->
                    ContentByte(p, IF p.height > 0 THEN fr - 1 ELSE rows - fr, k - 1)]])
      offset == 14 + blockLen + Len(pal)
      all == p.magic \o Enc32(offset + Len(data)) \o <<0, 0, 0, 0>> \o Enc32(offset)
             \o block \o pal \o data
  IN IF p.cut < 0 THEN all ELSE SubSeq(all, 1, Min(p.cut, Len(all)))

Bits(lo, hi) == lo..hi

BaseFile ==
  [magic |-> <<66, 77>>, hsize |-> 40, width |-> 1, height |-> 1, bpp |-> 24,
   comp |-> 0, ncolors |-> 0, npal |-> 0, r |-> {}, g |-> {}, b |-> {}, a |-> {},
   cs |-> colorSpaceSRGBMagic, seed |-> 18, step |-> 37, cut |-> 0 - 1]

Magics == {<<66, 77>>, <<77, 66>>, <<66, 66>>, <<0, 0>>}
HeaderSizes == {12, 40, 52, 56, 64, 108, 124}
SupportedSizes == {40, 52, 56, 108, 124}
ColorSpaces(hsize) == IF hsize >= 108 THEN {colorSpaceSRGBMagic, 0} ELSE {colorSpaceSRGBMagic}
Heights == {h \in (0 - MaxRows)..MaxRows : h # 0}

\* masks carried by a header (or appended to it) for a depth
FileMasks(bpp) ==
  IF bpp = 16 THEN [r |-> Bits(11, 15), g |-> Bits(5, 10), b |-> Bits(0, 4), a |-> {}]
  ELSE [r |-> Bits(24, 31), g |-> Bits(16, 23), b |-> Bits(8, 15), a |-> Bits(0, 7)]

WithMasks(p) ==
  LET m == FileMasks(p.bpp)
  IN [p EXCEPT !.r = m.r, !.g = m.g, !.b = m.b, !.a = m.a]

WithPalette(p, n) == [p EXCEPT !.ncolors = n, !.npal = n]

\* files that differ in what the validation steps look at
HeaderFiles ==
  {LET q == [BaseFile EXCEPT !.magic = mg, !.hsize = hs, !.comp = cm, !.cs = cs,
                             !.bpp = bp, !.seed = 2]
   IN IF bp <= 8 THEN WithPalette(q, 4) ELSE WithMasks(q) :
     <<mg, hs, cm, cs, bp>> \in
       {t \in Magics \X HeaderSizes \X {BI_RGB, BI_RLE8, BI_BITFIELDS}
              \X {colorSpaceSRGBMagic, 0} \X {8, 12, 16, 24, 32} :
          t[4] \in ColorSpaces(t[2])}}

\* palette images of every supported depth, both row orders
PaletteWidths == (1..MaxPaletteWidth) \cup {8, 9}
PalettedFiles ==
  {WithPalette([BaseFile EXCEPT !.bpp = bp, !.width = w, !.height = h, !.seed = sd],
               IF bp = 8 THEN 32 ELSE 2^bp) :
     <<bp, w, h, sd>> \in {1, 2, 4, 8} \X PaletteWidths \X Heights \X {18, 228}}

\* direct colour images of every depth, compression and header version
DirectFiles ==
  {WithMasks([BaseFile EXCEPT !.bpp = bp, !.comp = cm, !.hsize = hs, !.width = w,
                              !.height = h, !.seed = sd]) :
     <<bp, cm, hs, w, h, sd>> \in
       {16, 24, 32} \X {BI_RGB, BI_BITFIELDS} \X SupportedSizes \X (1..MaxWidth)
         \X Heights \X {200}}

\* a direct colour image cut short at several lengths
TruncatedFiles ==
  {WithMasks([BaseFile EXCEPT !.width = 2, !.height = 2, !.cut = c]) :
     c \in {0, 1, 10, 16, 30, 60, 65}}

\* a 24 bit pixel stored as the bytes 0x10, 0x20, 0x30, under every header
\* version and compression, with masks of its own in the header
ExampleFiles ==
  {WithMasks([BaseFile EXCEPT !.hsize = hs, !.comp = cm, !.seed = 16, !.step = 16]) :
     <<hs, cm>> \in SupportedSizes \X {BI_RGB, BI_BITFIELDS}}

\* header fields at the edges of their ranges
EdgeFiles ==
  {[BaseFile EXCEPT !.bpp = 0],
   [BaseFile EXCEPT !.width = 0 - 1],
   WithPalette([BaseFile EXCEPT !.bpp = 8, !.width = 0 - 1], 4),
   [BaseFile EXCEPT !.height = 0],
   [BaseFile EXCEPT !.width = 0],
   WithPalette([BaseFile EXCEPT !.bpp = 8, !.width = 2], 256),
   [WithMasks([BaseFile EXCEPT !.bpp = 16, !.comp = BI_BITFIELDS, !.hsize = 52])
      EXCEPT !.r = {}],
   [WithMasks([BaseFile EXCEPT !.bpp = 32, !.comp = BI_BITFIELDS, !.hsize = 56])
      EXCEPT !.g = {}],
   [BaseFile EXCEPT !.bpp = 32, !.comp = BI_BITFIELDS],
   WithPalette([BaseFile EXCEPT !.bpp = 4, !.width = 2], 2),
   [BaseFile EXCEPT !.bpp = 32, !.comp = BI_BITFIELDS, !.hsize = 56, !.width = 2,
                    !.seed = 200, !.r = Bits(20, 29), !.g = Bits(10, 19),
                    !.b = Bits(0, 9), !.a = Bits(30, 31)]}
  \cup {[WithPalette([BaseFile EXCEPT !.bpp = bp, !.width = 2], 2^bp) EXCEPT !.ncolors = 0] :
          bp \in {1, 4, 8}}

\* the files of a run that loads twice into the same Image
CallFiles ==
  {[BaseFile EXCEPT !.magic = <<77, 66>>],
   [BaseFile EXCEPT !.comp = BI_RLE8],
   [BaseFile EXCEPT !.hsize = 108, !.cs = 0],
   [BaseFile EXCEPT !.hsize = 12],
   [BaseFile EXCEPT !.width = 2, !.height = 0 - 2],
   WithMasks([BaseFile EXCEPT !.bpp = 16, !.comp = BI_BITFIELDS, !.hsize = 56]),
   WithPalette([BaseFile EXCEPT !.bpp = 4, !.width = 3, !.height = 2], 16),
   WithPalette([BaseFile EXCEPT !.bpp = 1, !.width = 9, !.height = 0 - 1], 2)}

Corpus(s) ==
  IF s = "single"
  THEN HeaderFiles \cup PalettedFiles \cup DirectFiles \cup TruncatedFiles
       \cup ExampleFiles \cup EdgeFiles
  ELSE CallFiles

JunkPatterns == {<<0, 0>>, <<66, 77>>}
JunkInts == {0 - 1, 7}

(* ------------------------------ the state ------------------------------- *)

VARIABLES
  hostLE,       \* isSystemLittleEndian() on the host
  session,      \* which files this run loads
  callsLeft,    \* loadBmp calls still to be made on the Image
  pc,           \* position of the running loadBmp call
  src,          \* description of the file being loaded
  file,         \* its bytes
  good,         \* state of the std::ifstream
  fileHeader,   \* BitmapFileHeader fileHeader
  infoHeader,   \* BitmapInfoHeader infoHeader
  palette,      \* std::vector<Color4> palette
  d,            \* locals of extractPalettedPixels / extractPixels
  row,          \* char* row
  _pixels,      \* Image::_pixels
  _width_px,    \* Image::_width_px
  _height_px,   \* Image::_height_px
  ret,          \* value returned by the last loadBmp call (when pc = "returned")
  outcomes,     \* every <<returning step, returned value>> seen on this Image
  pre,          \* the Image as it was when the call started
  steps,        \* the steps the running call has taken
  rowReads,     \* the row reads of the running call: position, size, pixels emitted
  fileOpen,     \* the std::ifstream of loadBmp holds the file open
  _keys,        \* Input::_keys
  keyLog,       \* per key: the last event and the events since the last onUpdate
  draw          \* the running Screen::drawSprite call: arguments, locals, writes

vars == <<hostLE, session, callsLeft, pc, src, file, good, fileHeader, infoHeader,
          palette, d, row, _pixels, _width_px, _height_px, ret, outcomes, pre, steps, rowReads,
          fileOpen, _keys, keyLog, draw>>

\* enum Input::KeyCode without KEY_COUNT
KeyCodes ==
  {"KEY_a", "KEY_b", "KEY_c", "KEY_d", "KEY_e", "KEY_f", "KEY_g", "KEY_h", "KEY_i",
   "KEY_j", "KEY_k", "KEY_l", "KEY_m", "KEY_n", "KEY_o", "KEY_p", "KEY_q", "KEY_r",
   "KEY_s", "KEY_t", "KEY_u", "KEY_v", "KEY_w", "KEY_x", "KEY_y", "KEY_z", "KEY_SPACE",
   "KEY_BACKSPACE", "KEY_ENTER", "KEY_LEFT", "KEY_RIGHT", "KEY_UP", "KEY_DOWN"}

\* Input::Input()
NewKeys ==
  [k \in KeyCodes |-> [_isDown |-> FALSE, _isPressed |-> FALSE, _isReleased |-> FALSE]]

\* the SDL key symbols an event can carry; the last two have no KeyCode
SdlCodes ==
  {"SDLK_a", "SDLK_b", "SDLK_c", "SDLK_d", "SDLK_e", "SDLK_f",
   "SDLK_g", "SDLK_h", "SDLK_i", "SDLK_j", "SDLK_k", "SDLK_l",
   "SDLK_m", "SDLK_n", "SDLK_o", "SDLK_p", "SDLK_q", "SDLK_r",
   "SDLK_s", "SDLK_t", "SDLK_u", "SDLK_v", "SDLK_w", "SDLK_x",
   "SDLK_y", "SDLK_z", "SDLK_SPACE", "SDLK_BACKSPACE", "SDLK_RETURN", "SDLK_LEFT",
   "SDLK_RIGHT", "SDLK_DOWN", "SDLK_UP", "SDLK_ESCAPE", "SDLK_F1"}

\* nothing has been delivered to the Input: per SDL key symbol the type of the
\* last event and whether a key-down / key-up arrived since the last onUpdate
NoKeyLog == [c \in SdlCodes |-> [last |-> "none", down |-> FALSE, up |-> FALSE]]

\* no drawSprite call is running
NoDraw ==
  [at |-> "idle", x |-> 0, y |-> 0, spriteWidth |-> 0, spriteHeight |-> 0,
   spriteRow |-> 0, spritePixelNum |-> 0, writes |-> {}]

Devices == <<_keys, keyLog, draw>>

\* the Input and the Screen of a run that only loads images
IdleDevices == _keys = NewKeys /\ keyLog = NoKeyLog /\ draw = NoDraw

ZeroFileHeader == [_fileMagic |-> 0, _fileSize |-> 0, _pixelOffset_bytes |-> 0]

NoLocals ==
  [rowSize_bytes |-> 0, rowOffset_bytes |-> 0, seekPos |-> 0, numRows |-> 0, i |-> 0,
   numPixelsPerByte |-> 0, mask |-> {}, pixelSize_bytes |-> 0,
   redShift |-> 0, greenShift |-> 0, blueShift |-> 0, alphaShift |-> 0]

\* a default-initialised Image (no constructor: the ints are indeterminate)
\* on which one loadBmp call is made
Init ==
  /\ hostLE \in BOOLEAN
  /\ session = "single"
  /\ callsLeft = 1
  /\ pc = "idle"
  /\ src = BaseFile
  /\ file = <<>>
  /\ good = FALSE
  /\ fileHeader = ZeroFileHeader
  /\ infoHeader = ZeroInfoHeader
  /\ palette = <<>>
  /\ d = NoLocals
  /\ row = <<>>
  /\ _pixels = <<>>
  /\ \E u \in JunkInts : _width_px = u /\ _height_px = u
  /\ ret = 0
  /\ outcomes = {}
  /\ pre = [pixels |-> <<>>, width |-> 0, height |-> 0]
  /\ steps = <<>>
  /\ rowReads = <<>>
  /\ fileOpen = FALSE
  /\ IdleDevices

Image == <<_pixels, _width_px, _height_px>>
Call == <<fileHeader, infoHeader, palette, d, row>>
Host == <<hostLE, session>>
Result == <<ret, outcomes>>

CanCall == pc \in {"idle", "returned"} /\ callsLeft > 0

StartCall ==
  /\ callsLeft' = callsLeft - 1
  /\ pre' = [pixels |-> _pixels, width |-> _width_px, height |-> _height_px]
  /\ fileHeader' = ZeroFileHeader
  /\ infoHeader' = ZeroInfoHeader
  /\ palette' = <<>>
  /\ d' = NoLocals
  /\ row' = <<>>
  /\ rowReads' = <<>>

\* a return that leaves the stream of loadBmp open
Return_KeepsFileOpen(v, step) ==
  /\ pc' = "returned"
  /\ ret' = v
  /\ outcomes' = outcomes \cup {<<step, v>>}
  /\ UNCHANGED fileOpen

\* return v; in the given step (the ifstream goes out of scope)
Return(v, step) ==
  /\ pc' = "returned"
  /\ ret' = v
  /\ outcomes' = outcomes \cup {<<step, v>>}
  /\ fileOpen' = FALSE

\* loadBmp, lines 710-713, the file cannot be opened
LoadBmpNoFile ==
  /\ CanCall
  /\ StartCall
  /\ src' = BaseFile /\ file' = <<>> /\ good' = FALSE
  /\ steps' = <<"LoadBmpNoFile">>
  /\ Return(0 - 1, "LoadBmpNoFile")
  /\ UNCHANGED <<Host, Devices, Image>>

\* loadBmp, lines 710-713, the file is opened
LoadBmp ==
  /\ CanCall
  /\ StartCall
  /\ \E p \in Corpus(session) : src' = p /\ file' = FileOf(p)
  /\ good' = TRUE
  /\ steps' = <<"LoadBmp">>
  /\ pc' = "opened"
  /\ fileOpen' = TRUE
  /\ UNCHANGED <<Host, Devices, Image, Result>>

\* loadBmp, lines 715-719
ExtractFileHeader ==
  /\ pc = "opened"
  /\ \E junk \in JunkPatterns :
       LET x == extractFileHeader(file, good, junk, hostLE)
       IN /\ fileHeader' = x.header
          /\ good' = x.good
          /\ IF x.header._fileMagic # bitmapFileMagic
             THEN Return(0 - 1, "ExtractFileHeader")
             ELSE pc' = "fileHeaderParsed" /\ UNCHANGED <<Result, fileOpen>>
  /\ steps' = Append(steps, "ExtractFileHeader")
  /\ UNCHANGED <<Host, Devices, Image, callsLeft, src, file, infoHeader, palette, d, row,
                 pre, rowReads>>

\* an info header parse that makes the colour space check itself
ExtractInfoHeader_ChecksColorSpace ==
  /\ pc = "fileHeaderParsed"
  /\ \E junk \in JunkPatterns :
       LET x == extractInfoHeader(file, good, junk, hostLE)
       IN /\ infoHeader' = x.header
          /\ good' = x.good
          /\ IF /\ x.header._headerSize_bytes \in ReachesCase(BITMAPV4HEADER_SIZE_BYTES)
                /\ x.header._colorSpaceMagic # BitsOf(colorSpaceSRGBMagic)
             THEN Return(0 - 1, "ExtractInfoHeader")
             ELSE pc' = "infoHeaderParsed" /\ UNCHANGED <<Result, fileOpen>>
  /\ steps' = Append(steps, "ExtractInfoHeader")
  /\ UNCHANGED <<Host, Devices, Image, callsLeft, src, file, fileHeader, palette, d, row,
                 pre, rowReads>>

\* loadBmp, lines 721-722
ExtractInfoHeader ==
  /\ pc = "fileHeaderParsed"
  /\ \E junk \in JunkPatterns :
       LET x == extractInfoHeader(file, good, junk, hostLE)
       IN infoHeader' = x.header /\ good' = x.good
  /\ pc' = "infoHeaderParsed"
  /\ steps' = Append(steps, "ExtractInfoHeader")
  /\ UNCHANGED <<Host, Devices, Image, callsLeft, src, file, fileHeader, palette, d, row,
                 Result, fileOpen, pre, rowReads>>

\* the compression check letting BI_RLE8 through
ValidateCompression_AcceptsRLE ==
  /\ pc = "infoHeaderParsed"
  /\ IF infoHeader._compression \notin {BI_RGB, BI_RLE8, BI_BITFIELDS}
     THEN Return(0 - 1, "ValidateCompression")
     ELSE pc' = "compressionValidated" /\ UNCHANGED <<Result, fileOpen>>
  /\ steps' = Append(steps, "ValidateCompression")
  /\ UNCHANGED <<Host, Devices, Image, callsLeft, src, file, good, fileHeader, infoHeader,
                 palette, d, row, pre, rowReads>>

\* the compression check returning a code of its own
ValidateCompression_OwnCode ==
  /\ pc = "infoHeaderParsed"
  /\ IF infoHeader._compression # BI_RGB /\ infoHeader._compression # BI_BITFIELDS
     THEN Return(0 - 2, "ValidateCompression")
     ELSE pc' = "compressionValidated" /\ UNCHANGED <<Result, fileOpen>>
  /\ steps' = Append(steps, "ValidateCompression")
  /\ UNCHANGED <<Host, Devices, Image, callsLeft, src, file, good, fileHeader, infoHeader,
                 palette, d, row, pre, rowReads>>

\* loadBmp, lines 724-727
ValidateCompression ==
  /\ pc = "infoHeaderParsed"
  /\ IF infoHeader._compression # BI_RGB /\ infoHeader._compression # BI_BITFIELDS
     THEN Return(0 - 1, "ValidateCompression")
     ELSE pc' = "compressionValidated" /\ UNCHANGED <<Result, fileOpen>>
  /\ steps' = Append(steps, "ValidateCompression")
  /\ UNCHANGED <<Host, Devices, Image, callsLeft, src, file, good, fileHeader, infoHeader,
                 palette, d, row, pre, rowReads>>

\* the colour space check under case V5 / case V4, with only the V5 label
ColorSpaceRejected_V5Only(hdr) ==
  /\ hdr._headerSize_bytes = BITMAPV5HEADER_SIZE_BYTES
  /\ hdr._colorSpaceMagic # BitsOf(colorSpaceSRGBMagic)

\* loadBmp, lines 732-740: the colour space check under case V5 / case V4
ColorSpaceRejected(hdr) ==
  /\ hdr._headerSize_bytes \in ReachesCase(BITMAPV4HEADER_SIZE_BYTES)
  /\ hdr._colorSpaceMagic # BitsOf(colorSpaceSRGBMagic)

\* loadBmp, lines 760-763 and 768-769: the default masks of 16 bit BI_RGB
Rgb16Masks(hdr, V3_4_5) ==
  [hdr EXCEPT !._redMask = 10..14, !._greenMask = 5..9, !._blueMask = 0..4,
              !._alphaMask = IF ~V3_4_5 THEN {15} ELSE @]

\* 24 bit pixels decoded with the masks the header carries
Rgb24Masks_FromHeader(hdr) == hdr

\* loadBmp, lines 784-788: the masks of 24 bit pixels
Rgb24Masks(hdr) ==
  [hdr EXCEPT !._redMask = 16..23, !._greenMask = 8..15, !._blueMask = 0..7,
              !._alphaMask = {}]

\* 32 bit BI_RGB with the default alpha mask under every header version
Rgb32Masks_AlwaysDefaultAlpha(hdr, V3_4_5) ==
  [hdr EXCEPT !._redMask = 16..23, !._greenMask = 8..15, !._blueMask = 0..7,
              !._alphaMask = 24..31]

\* loadBmp, lines 794-797 and 802-803: the default masks of 32 bit BI_RGB
Rgb32Masks(hdr, V3_4_5) ==
  [hdr EXCEPT !._redMask = 16..23, !._greenMask = 8..15, !._blueMask = 0..7,
              !._alphaMask = IF ~V3_4_5 THEN 24..31 ELSE @]

\* a loader that never reads the masks appended to a 40 byte header
ReadsAppendedMasks_Never(V2, V3_4_5) == FALSE

\* loadBmp, lines 776 and 810: if(!V2 && !V3_4_5) extractAppendedRGBMasks
ReadsAppendedMasks(V2, V3_4_5) == ~V2 /\ ~V3_4_5

\* the switch of loadBmp, lines 729-816: which decoder runs ("next") and with
\* which masks; "return" is the return -1 of the colour space check, "finish"
\* the end of the switch without a decoder
SwitchOnHeaderSize(hdr, f, streamGood, junk, littleEndian) ==
  LET hs == hdr._headerSize_bytes
      stay == [header |-> hdr, good |-> streamGood]
      V3_4_5 == hs \in {BITMAPV5HEADER_SIZE_BYTES, BITMAPV4HEADER_SIZE_BYTES,
                        BITMAPV3INFOHEADER_SIZE_BYTES}
      V2 == hs = BITMAPV2INFOHEADER_SIZE_BYTES
      appended == extractAppendedRGBMasks(f, streamGood, junk, littleEndian)
      bitfields ==
        IF ReadsAppendedMasks(V2, V3_4_5)
        THEN [header |-> [hdr EXCEPT !._redMask = appended._redMask,
                                     !._greenMask = appended._greenMask,
                                     !._blueMask = appended._blueMask],
              good |-> appended.good, next |-> "extractPixels"]
        ELSE stay @@ [next |-> "extractPixels"]
      rgb16 ==
        [header |-> Rgb16Masks(hdr, V3_4_5),
         good |-> streamGood, next |-> "extractPixels"]
      rgb24 ==
        [header |-> Rgb24Masks(hdr),
         good |-> streamGood, next |-> "extractPixels"]
      rgb32 ==
        [header |-> Rgb32Masks(hdr, V3_4_5),
         good |-> streamGood, next |-> "extractPixels"]
  IN IF hs \notin ReachesCase(BITMAPINFOHEADER_SIZE_BYTES)
     THEN stay @@ [next |-> "finish"]
     ELSE IF ColorSpaceRejected(hdr)
     THEN stay @@ [next |-> "return"]
     ELSE IF hdr._bitsPerPixel <= 8
     THEN stay @@ [next |-> "extractPalettedPixels"]
     ELSE IF hdr._bitsPerPixel = 16
     THEN (IF hdr._compression = BI_RGB THEN rgb16
           ELSE IF hdr._compression = BI_BITFIELDS THEN bitfields
           ELSE stay @@ [next |-> "finish"])
     ELSE IF hdr._bitsPerPixel = 24
     THEN rgb24
     ELSE IF hdr._bitsPerPixel = 32
     THEN (IF hdr._compression = BI_RGB THEN rgb32
           ELSE IF hdr._compression = BI_BITFIELDS THEN bitfields
           ELSE stay @@ [next |-> "finish"])
     ELSE stay @@ [next |-> "finish"]

\* the switch with the assignments of lines 818-819 made before it
SelectDecoder_AssignsSizeFirst ==
  /\ pc = "compressionValidated"
  /\ \E junk \in JunkPatterns :
       LET x == SwitchOnHeaderSize(infoHeader, file, good, junk, hostLE)
       IN /\ infoHeader' = x.header
          /\ good' = x.good
          /\ IF x.next = "return" THEN Return(0 - 1, "SelectDecoder")
             ELSE pc' = x.next /\ UNCHANGED <<Result, fileOpen>>
  /\ _width_px' = infoHeader._bmpWidth_px
  /\ _height_px' = infoHeader._bmpHeight_px
  /\ steps' = Append(steps, "SelectDecoder")
  /\ UNCHANGED <<Host, Devices, _pixels, callsLeft, src, file, fileHeader, palette, d, row,
                 pre, rowReads>>

\* loadBmp, lines 729-816 up to the call of a decoder
SelectDecoder ==
  /\ pc = "compressionValidated"
  /\ \E junk \in JunkPatterns :
       LET x == SwitchOnHeaderSize(infoHeader, file, good, junk, hostLE)
       IN /\ infoHeader' = x.header
          /\ good' = x.good
          /\ IF x.next = "return" THEN Return(0 - 1, "SelectDecoder")
             ELSE pc' = x.next /\ UNCHANGED <<Result, fileOpen>>
  /\ steps' = Append(steps, "SelectDecoder")
  /\ UNCHANGED <<Host, Devices, Image, callsLeft, src, file, fileHeader, palette, d, row,
                 pre, rowReads>>

\* the row geometry without the reversal for a negative height
RowGeometry_AlwaysForward(fh, hdr, rowSize_bytes) ==
  [numRows |-> Abs(hdr._bmpHeight_px),
   seekPos |-> fh._pixelOffset_bytes,
   rowOffset_bytes |-> rowSize_bytes]

\* a row geometry that starts a top-down image one row past its last row
RowGeometry_StartsPastLastRow(fh, hdr, rowSize_bytes) ==
  LET numRows == Abs(hdr._bmpHeight_px)
      isTopOrigin == hdr._bmpHeight_px < 0
  IN [numRows |-> numRows,
      seekPos |-> IF isTopOrigin
                  THEN fh._pixelOffset_bytes + (numRows * rowSize_bytes)
                  ELSE fh._pixelOffset_bytes,
      rowOffset_bytes |-> IF isTopOrigin THEN 0 - rowSize_bytes ELSE rowSize_bytes]

\* the row geometry both decoders compute (lines 979-986 and 1033-1040)
RowGeometry(fh, hdr, rowSize_bytes) ==
  LET numRows == Abs(hdr._bmpHeight_px)
      isTopOrigin == hdr._bmpHeight_px < 0
      pixelOffset_bytes == fh._pixelOffset_bytes
  IN [numRows |-> numRows,
      seekPos |-> IF isTopOrigin
                  THEN pixelOffset_bytes + ((numRows - 1) * rowSize_bytes)
                  ELSE pixelOffset_bytes,
      rowOffset_bytes |-> IF isTopOrigin THEN 0 - rowSize_bytes ELSE rowSize_bytes]

\* extractPalettedPixels, lines 969-991: the palette and the locals.  A palette
\* count of 256 or more is never reached by the uint8_t counter ("hang"); a
\* zero bitsPerPixel divides by zero, a negative reserve or allocation size
\* ends the process ("fault")
BeginPalettedPixels ==
  /\ pc = "extractPalettedPixels"
  /\ \E junk \in JunkPatterns :
       LET rowSize_bytes == RowSizeBytes(infoHeader._bitsPerPixel, infoHeader._bmpWidth_px)
           geo == RowGeometry(fileHeader, infoHeader, rowSize_bytes)
           pal == extractColorPalette(file, good, infoHeader, junk)
       IN IF infoHeader._numPaletteColors >= 256
          THEN pc' = "hang" /\ UNCHANGED <<palette, good, d, row>>
          ELSE /\ palette' = pal.palette
               /\ good' = pal.good
               /\ IF infoHeader._bitsPerPixel = 0
                     \/ infoHeader._bmpWidth_px * geo.numRows < 0
                     \/ rowSize_bytes < 0
                  THEN pc' = "fault" /\ UNCHANGED <<d, row>>
                  ELSE /\ pc' = "palettedRows"
                       /\ d' = [NoLocals EXCEPT
                                  !.rowSize_bytes = rowSize_bytes,
                                  !.numPixelsPerByte = 8 \div infoHeader._bitsPerPixel,
                                  !.mask = 0..(infoHeader._bitsPerPixel - 1),
                                  !.numRows = geo.numRows,
                                  !.seekPos = geo.seekPos,
                                  !.rowOffset_bytes = geo.rowOffset_bytes]
                       /\ row' = Uninitialized(rowSize_bytes, junk)
  /\ steps' = Append(steps, "BeginPalettedPixels")
  /\ UNCHANGED <<Host, Devices, Image, callsLeft, src, file, fileHeader, infoHeader, Result, fileOpen,
                 pre, rowReads>>

\* extractPalettedPixels, lines 994-1015: one iteration of the loop over the
\* rows.  palette[index] on a vector without elements reads through a null
\* pointer, which ends the process ("fault")
PalettedRow ==
  /\ pc = "palettedRows"
  /\ d.i < d.numRows
  /\ \E junk \in JunkPatterns :
       LET rd == seekRead(file, good, d.seekPos, d.rowSize_bytes, row)
           px == PalettedRowPixels(rd.buf, infoHeader, d.numPixelsPerByte, d.mask,
                                   palette, junk)
       IN /\ row' = rd.buf
          /\ good' = rd.good
          /\ IF palette = <<>> /\ infoHeader._bmpWidth_px > 0
             THEN pc' = "fault" /\ UNCHANGED <<_pixels, rowReads>>
             ELSE /\ pc' = pc
                  /\ _pixels' = _pixels \o px
                  /\ rowReads' = Append(rowReads, [pos |-> d.seekPos, n |-> d.rowSize_bytes,
                                                   emitted |-> Len(px)])
  /\ d' = [d EXCEPT !.seekPos = @ + d.rowOffset_bytes, !.i = @ + 1]
  /\ steps' = Append(steps, "PalettedRow")
  /\ UNCHANGED <<Host, Devices, callsLeft, src, file, fileHeader, infoHeader, palette,
                 _width_px, _height_px, Result, fileOpen, pre>>

\* extractPalettedPixels, lines 994 and 1016: the loop ends
EndPalettedPixels ==
  /\ pc = "palettedRows"
  /\ ~(d.i < d.numRows)
  /\ pc' = "finish"
  /\ row' = <<>>
  /\ steps' = Append(steps, "EndPalettedPixels")
  /\ UNCHANGED <<Host, Devices, Image, callsLeft, src, file, good, fileHeader, infoHeader,
                 palette, d, Result, fileOpen, pre, rowReads>>

\* extractPixels, lines 1030-1058: the locals and the shifts.  The scan for the
\* lowest set bit of a red, green or blue mask without a set bit has no exit
BeginPixels ==
  /\ pc = "extractPixels"
  /\ \E junk \in JunkPatterns :
       LET rowSize_bytes == RowSizeBytes(infoHeader._bitsPerPixel, infoHeader._bmpWidth_px)
           geo == RowGeometry(fileHeader, infoHeader, rowSize_bytes)
           redShift == ScanShift(infoHeader._redMask, 0)
           greenShift == ScanShift(infoHeader._greenMask, 0)
           blueShift == ScanShift(infoHeader._blueMask, 0)
           alphaShift == IF infoHeader._alphaMask # {}
                         THEN ScanShift(infoHeader._alphaMask, 0) ELSE 0
       IN IF redShift < 0 \/ greenShift < 0 \/ blueShift < 0
          THEN pc' = "hang" /\ UNCHANGED <<d, row>>
          ELSE IF infoHeader._bmpWidth_px * geo.numRows < 0 \/ rowSize_bytes < 0
          THEN pc' = "fault" /\ UNCHANGED <<d, row>>
          ELSE /\ pc' = "rows"
               /\ d' = [NoLocals EXCEPT
                          !.rowSize_bytes = rowSize_bytes,
                          !.pixelSize_bytes = infoHeader._bitsPerPixel \div 8,
                          !.numRows = geo.numRows,
                          !.seekPos = geo.seekPos,
                          !.rowOffset_bytes = geo.rowOffset_bytes,
                          !.redShift = redShift, !.greenShift = greenShift,
                          !.blueShift = blueShift, !.alphaShift = alphaShift]
               /\ row' = Uninitialized(rowSize_bytes, junk)
  /\ steps' = Append(steps, "BeginPixels")
  /\ UNCHANGED <<Host, Devices, Image, callsLeft, src, file, good, fileHeader, infoHeader,
                 palette, Result, fileOpen, pre, rowReads>>

\* extractPixels, lines 1061-1085: one iteration of the loop over the rows
PixelsRow ==
  /\ pc = "rows"
  /\ d.i < d.numRows
  /\ \E junk \in JunkPatterns :
       LET rd == seekRead(file, good, d.seekPos, d.rowSize_bytes, row)
           px == DirectRowPixels(rd.buf, infoHeader, d, junk)
       IN /\ row' = rd.buf
          /\ good' = rd.good
          /\ _pixels' = _pixels \o px
          /\ rowReads' = Append(rowReads, [pos |-> d.seekPos, n |-> d.rowSize_bytes,
                                           emitted |-> Len(px)])
  /\ d' = [d EXCEPT !.seekPos = @ + d.rowOffset_bytes, !.i = @ + 1]
  /\ steps' = Append(steps, "PixelsRow")
  /\ UNCHANGED <<Host, Devices, callsLeft, pc, src, file, fileHeader, infoHeader, palette,
                 _width_px, _height_px, Result, fileOpen, pre>>

\* extractPixels, lines 1061 and 1086: the loop ends
EndPixels ==
  /\ pc = "rows"
  /\ ~(d.i < d.numRows)
  /\ pc' = "finish"
  /\ row' = <<>>
  /\ steps' = Append(steps, "EndPixels")
  /\ UNCHANGED <<Host, Devices, Image, callsLeft, src, file, good, fileHeader, infoHeader,
                 palette, d, Result, fileOpen, pre, rowReads>>

\* loadBmp, lines 818-821
Finish ==
  /\ pc = "finish"
  /\ _width_px' = infoHeader._bmpWidth_px
  /\ _height_px' = infoHeader._bmpHeight_px
  /\ Return(0, "Finish")
  /\ steps' = Append(steps, "Finish")
  /\ UNCHANGED <<Host, Devices, callsLeft, src, file, good, fileHeader, infoHeader, palette,
                 d, row, _pixels, pre, rowReads>>

Next ==
  \/ LoadBmpNoFile
  \/ LoadBmp
  \/ ExtractFileHeader
  \/ ExtractInfoHeader
  \/ ValidateCompression
  \/ SelectDecoder
  \/ BeginPalettedPixels
  \/ PalettedRow
  \/ EndPalettedPixels
  \/ BeginPixels
  \/ PixelsRow
  \/ EndPixels
  \/ Finish

Spec == Init /\ [][Next]_vars

\* an Image on which loadBmp is called twice
InitCalls ==
  /\ hostLE \in BOOLEAN
  /\ session = "calls"
  /\ callsLeft = 2
  /\ pc = "idle"
  /\ src = BaseFile
  /\ file = <<>>
  /\ good = FALSE
  /\ fileHeader = ZeroFileHeader
  /\ infoHeader = ZeroInfoHeader
  /\ palette = <<>>
  /\ d = NoLocals
  /\ row = <<>>
  /\ _pixels = <<>>
  /\ \E u \in JunkInts : _width_px = u /\ _height_px = u
  /\ ret = 0
  /\ outcomes = {}
  /\ pre = [pixels |-> <<>>, width |-> 0, height |-> 0]
  /\ steps = <<>>
  /\ rowReads = <<>>
  /\ fileOpen = FALSE
  /\ IdleDevices

SpecCalls == InitCalls /\ [][Next]_vars

\* the row size computation on its own, for widths up to the range of int
MaxSmallWidth == 16
RowSizeWidths == (1..MaxSmallWidth) \cup {16777215, 16777216, 16777217, 33554433, 1073741825}

InitRowSize ==
  /\ hostLE = TRUE
  /\ session = "rowSize"
  /\ callsLeft = 0
  /\ pc = "rowSize"
  /\ src = BaseFile
  /\ file = <<>>
  /\ good = FALSE
  /\ fileHeader = ZeroFileHeader
  /\ \E bpp \in {1, 2, 4, 8, 16, 24, 32}, w \in RowSizeWidths :
       /\ w <= 2147483647 \div bpp
       /\ infoHeader = [ZeroInfoHeader EXCEPT !._bitsPerPixel = bpp, !._bmpWidth_px = w]
  /\ palette = <<>>
  /\ d = NoLocals
  /\ row = <<>>
  /\ _pixels = <<>>
  /\ _width_px = 0 /\ _height_px = 0
  /\ ret = 0
  /\ outcomes = {}
  /\ pre = [pixels |-> <<>>, width |-> 0, height |-> 0]
  /\ steps = <<>>
  /\ rowReads = <<>>
  /\ fileOpen = FALSE
  /\ IdleDevices

\* extractPalettedPixels line 972, extractPixels line 1030
ComputeRowSize ==
  /\ pc = "rowSize"
  /\ d' = [d EXCEPT !.rowSize_bytes =
            RowSizeBytes(infoHeader._bitsPerPixel, infoHeader._bmpWidth_px)]
  /\ pc' = "rowSizeDone"
  /\ UNCHANGED <<Host, Devices, Image, Result, fileOpen, callsLeft, src, file, good, fileHeader,
                 infoHeader, palette, row, pre, steps, rowReads>>

NextRowSize == ComputeRowSize

SpecRowSize == InitRowSize /\ [][NextRowSize]_vars

\* the extractLittleEndian functions on their own: a buffer of count bytes or
\* one more, on a host of either byte order
EndianBytes == {1, 200}
EndianCounts == {2, 4, 8}

InitEndian ==
  /\ hostLE \in BOOLEAN
  /\ session = "endian"
  /\ callsLeft = 0
  /\ pc = "extract"
  /\ src = BaseFile
  /\ \E n \in EndianCounts : \E len \in {n, n + 1} :
       /\ file \in [1..len -> EndianBytes]
       /\ d = [count |-> n, value |-> {}]
  /\ row = file
  /\ good = TRUE
  /\ fileHeader = ZeroFileHeader
  /\ infoHeader = ZeroInfoHeader
  /\ palette = <<>>
  /\ _pixels = <<>>
  /\ _width_px = 0 /\ _height_px = 0
  /\ ret = 0
  /\ outcomes = {}
  /\ pre = [pixels |-> <<>>, width |-> 0, height |-> 0]
  /\ steps = <<>>
  /\ rowReads = <<>>
  /\ fileOpen = FALSE
  /\ IdleDevices

\* extractLittleEndianUint16 ... Int64 (lines 528-574) on the buffer `row`
ExtractLittleEndianWord ==
  /\ pc = "extract"
  /\ LET e == extractLittleEndian(row, 0, d.count, hostLE)
     IN d' = [d EXCEPT !.value = e.v] /\ row' = e.buf
  /\ pc' = "extracted"
  /\ UNCHANGED <<Host, Devices, Image, Result, fileOpen, callsLeft, src, file, good, fileHeader,
                 infoHeader, palette, pre, steps, rowReads>>

NextEndian == ExtractLittleEndianWord

SpecEndian == InitEndian /\ [][NextEndian]_vars

(* --------------------------- Screen::drawSprite -------------------------- *)

screenWidth == 160
screenHeight == 160
pixelCount == screenWidth * screenHeight

MaxSpriteSide == 3

\* positions at the origin and around the right and the top edge of the screen
DrawPositions == {0, 1} \cup ((screenWidth - MaxSpriteSide)..screenWidth)

Loader ==
  <<hostLE, session, callsLeft, pc, src, file, good, fileHeader, infoHeader, palette, d, row,
    _pixels, _width_px, _height_px, ret, outcomes, pre, steps, rowReads, fileOpen>>

\* an Image on which loadBmp is not called in session s
LoaderIdle(s) ==
  /\ hostLE = TRUE
  /\ session = s
  /\ callsLeft = 0
  /\ pc = "idle"
  /\ src = BaseFile
  /\ file = <<>>
  /\ good = FALSE
  /\ fileHeader = ZeroFileHeader
  /\ infoHeader = ZeroInfoHeader
  /\ palette = <<>>
  /\ d = NoLocals
  /\ row = <<>>
  /\ _pixels = <<>>
  /\ _width_px = 0 /\ _height_px = 0
  /\ ret = 0
  /\ outcomes = {}
  /\ pre = [pixels |-> <<>>, width |-> 0, height |-> 0]
  /\ steps = <<>>
  /\ rowReads = <<>>
  /\ fileOpen = FALSE

InitDraw == LoaderIdle("draw") /\ IdleDevices

\* drawSprite, lines 1220-1227: the loop over the columns of one sprite row;
\* each write is recorded as the screen index and the sprite pixel stored there
RECURSIVE ColumnLoop(_, _, _, _, _)
ColumnLoop(dr, screenRowIndex, spriteCol, spritePixelNum, writes) ==
  IF ~(spriteCol < dr.spriteWidth) \/ dr.x + spriteCol >= screenWidth
  THEN [spritePixelNum |-> spritePixelNum, writes |-> writes]
  ELSE ColumnLoop(dr, screenRowIndex, spriteCol + 1, spritePixelNum + 1,
                  writes \cup {[index |-> screenRowIndex + spriteCol,
                                spritePixelNum |-> spritePixelNum]})

\* drawSprite, lines 1203-1211: the call with x >= 0 and y >= 0 and a sprite of
\* spriteWidth * spriteHeight pixels
DrawSprite ==
  /\ draw.at = "idle"
  /\ \E x \in DrawPositions, y \in DrawPositions,
        w \in 0..MaxSpriteSide, h \in 0..MaxSpriteSide :
       draw' = [at |-> "rows", x |-> x, y |-> y, spriteWidth |-> w, spriteHeight |-> h,
                spriteRow |-> 0, spritePixelNum |-> 0, writes |-> {}]
  /\ UNCHANGED <<Loader, _keys, keyLog>>

\* drawSprite, lines 1212-1228: one iteration of the loop over the sprite rows
DrawSpriteRow ==
  /\ draw.at = "rows"
  /\ draw.spriteRow < draw.spriteHeight
  /\ ~(draw.y + draw.spriteRow >= screenHeight)
  /\ LET screenRowIndex == draw.x + ((draw.y + draw.spriteRow) * screenWidth)
         cols == ColumnLoop(draw, screenRowIndex, 0, draw.spritePixelNum, draw.writes)
     IN draw' = [draw EXCEPT !.spriteRow = @ + 1,
                             !.spritePixelNum = cols.spritePixelNum,
                             !.writes = cols.writes]
  /\ UNCHANGED <<Loader, _keys, keyLog>>

\* drawSprite, lines 1213-1215: the next row is above the screen
DrawSpriteAbove ==
  /\ draw.at = "rows"
  /\ draw.spriteRow < draw.spriteHeight
  /\ draw.y + draw.spriteRow >= screenHeight
  /\ draw' = [draw EXCEPT !.at = "done"]
  /\ UNCHANGED <<Loader, _keys, keyLog>>

\* drawSprite, lines 1212 and 1229: the loop over the rows ends
DrawSpriteEnd ==
  /\ draw.at = "rows"
  /\ ~(draw.spriteRow < draw.spriteHeight)
  /\ draw' = [draw EXCEPT !.at = "done"]
  /\ UNCHANGED <<Loader, _keys, keyLog>>

NextDraw == DrawSprite \/ DrawSpriteRow \/ DrawSpriteAbove \/ DrawSpriteEnd

SpecDraw == InitDraw /\ [][NextDraw]_vars

(* --------------------------------- Input --------------------------------- *)

\* the key symbols of the events delivered in a run
EventCodes == {"SDLK_a", "SDLK_RETURN", "SDLK_UP", "SDLK_DOWN", "SDLK_F1"}

\* Input::convertSdlKeyCode, lines 231-269
convertSdlKeyCode(sdlCode) ==
  CASE sdlCode = "SDLK_a" -> "KEY_a"
    [] sdlCode = "SDLK_b" -> "KEY_b"
    [] sdlCode = "SDLK_c" -> "KEY_c"
    [] sdlCode = "SDLK_d" -> "KEY_d"
    [] sdlCode = "SDLK_e" -> "KEY_e"
    [] sdlCode = "SDLK_f" -> "KEY_f"
    [] sdlCode = "SDLK_g" -> "KEY_g"
    [] sdlCode = "SDLK_h" -> "KEY_h"
    [] sdlCode = "SDLK_i" -> "KEY_i"
    [] sdlCode = "SDLK_j" -> "KEY_j"
    [] sdlCode = "SDLK_k" -> "KEY_k"
    [] sdlCode = "SDLK_l" -> "KEY_l"
    [] sdlCode = "SDLK_m" -> "KEY_m"
    [] sdlCode = "SDLK_n" -> "KEY_n"
    [] sdlCode = "SDLK_o" -> "KEY_o"
    [] sdlCode = "SDLK_p" -> "KEY_p"
    [] sdlCode = "SDLK_q" -> "KEY_q"
    [] sdlCode = "SDLK_r" -> "KEY_r"
    [] sdlCode = "SDLK_s" -> "KEY_s"
    [] sdlCode = "SDLK_t" -> "KEY_t"
    [] sdlCode = "SDLK_u" -> "KEY_u"
    [] sdlCode = "SDLK_v" -> "KEY_v"
    [] sdlCode = "SDLK_w" -> "KEY_w"
    [] sdlCode = "SDLK_x" -> "KEY_x"
    [] sdlCode = "SDLK_y" -> "KEY_y"
    [] sdlCode = "SDLK_z" -> "KEY_z"
    [] sdlCode = "SDLK_SPACE" -> "KEY_SPACE"
    [] sdlCode = "SDLK_BACKSPACE" -> "KEY_BACKSPACE"
    [] sdlCode = "SDLK_RETURN" -> "KEY_ENTER"
    [] sdlCode = "SDLK_LEFT" -> "KEY_LEFT"
    [] sdlCode = "SDLK_RIGHT" -> "KEY_RIGHT"
    [] sdlCode = "SDLK_DOWN" -> "KEY_DOWN"
    [] sdlCode = "SDLK_UP" -> "KEY_UP"
    [] OTHER -> "KEY_COUNT"

InitInput == LoaderIdle("input") /\ IdleDevices

\* the record of the events, kept beside the Input
Delivered(log, sym, type) ==
  [log EXCEPT ![sym] = [last |-> type,
                        down |-> @.down \/ type = "SDL_KEYDOWN",
                        up |-> @.up \/ type = "SDL_KEYUP"]]

\* Input::onKeyEvent, lines 206-223
OnKeyEvent ==
  /\ \E sym \in EventCodes, type \in {"SDL_KEYDOWN", "SDL_KEYUP"} :
       LET key == convertSdlKeyCode(sym)
       IN /\ _keys' = IF key = "KEY_COUNT" THEN _keys
                      ELSE IF type = "SDL_KEYDOWN"
                      THEN [_keys EXCEPT ![key]._isDown = TRUE, ![key]._isPressed = TRUE]
                      ELSE [_keys EXCEPT ![key]._isDown = FALSE, ![key]._isReleased = TRUE]
          /\ keyLog' = Delivered(keyLog, sym, type)
  /\ UNCHANGED <<Loader, draw>>

\* an onUpdate that also forgets which keys are held
OnUpdate_ClearsIsDown ==
  /\ _keys' = NewKeys
  /\ keyLog' = [c \in SdlCodes |-> [keyLog[c] EXCEPT !.down = FALSE, !.up = FALSE]]
  /\ UNCHANGED <<Loader, draw>>

\* Input::onUpdate, lines 225-229
OnUpdate ==
  /\ _keys' = [k \in KeyCodes |->
                [_keys[k] EXCEPT !._isPressed = FALSE, !._isReleased = FALSE]]
  /\ keyLog' = [c \in SdlCodes |-> [keyLog[c] EXCEPT !.down = FALSE, !.up = FALSE]]
  /\ UNCHANGED <<Loader, draw>>

NextInput == OnKeyEvent \/ OnUpdate

SpecInput == InitInput /\ [][NextInput]_vars

TypeOK ==
  /\ pc \in {"idle", "opened", "fileHeaderParsed", "infoHeaderParsed",
             "compressionValidated", "extractPalettedPixels", "palettedRows",
             "extractPixels", "rows", "finish", "returned", "fault", "hang",
             "rowSize", "rowSizeDone", "extract", "extracted"}
  /\ ret \in {0, 0 - 1}

(* ------------------------------ properties ------------------------------ *)

\* fields of a file as the format defines them (little-endian, at fixed offsets)
FileU16(f, off) == f[off + 1] + (256 * f[off + 2])
FileU32(f, off) ==
  f[off + 1] + (256 * f[off + 2]) + (65536 * f[off + 3]) + (16777216 * f[off + 4])
HasMagic(f) == Len(f) >= 2 /\ FileU16(f, 0) = bitmapFileMagic
Untouched == _pixels = pre.pixels /\ _width_px = pre.width /\ _height_px = pre.height

\* C1: a file whose first two bytes, read as a little-endian word, are not
\* 0x4D42 makes loadBmp return -1 right after the file header: the info header
\* is not parsed and no pixel is extracted, whatever the rest of the file is.
C1_InvalidMagicFails ==
  (Len(file) >= 2 /\ FileU16(file, 0) # bitmapFileMagic /\ pc # "opened")
    => /\ pc = "returned" /\ ret = 0 - 1
       /\ steps = <<"LoadBmp", "ExtractFileHeader">>
       /\ infoHeader = ZeroInfoHeader
       /\ rowReads = <<>>
       /\ _pixels = pre.pixels

C1_Witness ==
  /\ pc = "returned" /\ ret = 0 - 1 /\ hostLE
  /\ Len(file) > 54 /\ <<file[1], file[2]>> = <<77, 66>>
  /\ FileU32(file, 14) = 40

\* C2: with a valid magic, a header size field outside {40,52,56,108,124}
\* makes loadBmp return failure, never success.
C2_UnsupportedHeaderFails ==
  (pc = "returned" /\ HasMagic(file) /\ Len(file) >= 18
     /\ FileU32(file, 14) \notin SupportedSizes)
    => ret = 0 - 1

\* C3: with a valid magic and a supported header size, a compression field
\* other than BI_RGB and BI_BITFIELDS makes loadBmp return -1 at the
\* compression check, and no pixel is extracted.
C3_UnsupportedCompressionFails ==
  (HasMagic(file) /\ Len(file) >= 54 /\ FileU32(file, 14) \in SupportedSizes
     /\ FileU32(file, 14 + BIHO_COMPRESSION) \notin {BI_RGB, BI_BITFIELDS})
    => /\ pc \in {"opened", "fileHeaderParsed", "infoHeaderParsed", "returned"}
       /\ pc = "returned" => ret = 0 - 1
       /\ rowReads = <<>>
       /\ _pixels = pre.pixels

C3_Witness ==
  /\ pc = "returned" /\ ret = 0 - 1 /\ hostLE
  /\ HasMagic(file) /\ Len(file) >= 54 /\ FileU32(file, 14) = 40
  /\ FileU32(file, 14 + BIHO_COMPRESSION) = BI_RLE8
  /\ steps[Len(steps)] = "ValidateCompression"

\* C4: with header size 108 or 124, a colour space tag other than the sRGB tag
\* makes loadBmp return -1 before a decoder runs, for every bits-per-pixel value.
C4_UnsupportedColorSpaceFails ==
  (HasMagic(file) /\ Len(file) >= 74
     /\ FileU32(file, 14) \in {BITMAPV4HEADER_SIZE_BYTES, BITMAPV5HEADER_SIZE_BYTES}
     /\ FileU32(file, 14 + BIHO_COLOR_SPACE_MAGIC) # colorSpaceSRGBMagic)
    => /\ pc \in {"opened", "fileHeaderParsed", "infoHeaderParsed",
                  "compressionValidated", "returned"}
       /\ pc = "returned" => ret = 0 - 1
       /\ rowReads = <<>>
       /\ _pixels = pre.pixels

C4_Witness ==
  /\ pc = "returned" /\ ret = 0 - 1 /\ hostLE
  /\ HasMagic(file) /\ Len(file) >= 74 /\ FileU32(file, 14) = BITMAPV4HEADER_SIZE_BYTES
  /\ FileU32(file, 14 + BIHO_COLOR_SPACE_MAGIC) = 0
  /\ FileU16(file, 14 + BIHO_BITS_PER_PIXEL) = 32
  /\ steps[Len(steps)] = "SelectDecoder"

FailureSteps == {"LoadBmpNoFile", "ExtractFileHeader", "ValidateCompression", "SelectDecoder"}

C6_FailureLeavesImage ==
  (pc = "returned" /\ ret = 0 - 1) => Untouched

C6_Witness ==
  /\ pc = "returned" /\ ret = 0 - 1
  /\ steps[Len(steps)] = "SelectDecoder"
  /\ pre.pixels # <<>> /\ pre.width = 3
  /\ _pixels = pre.pixels /\ _width_px = 3

\* C7: when loadBmp returns success on a fresh Image, the pixel buffer holds
\* exactly getWidth() x getHeight() pixels.
C7_PixelCountIsWidthTimesHeight ==
  (pc = "returned" /\ ret = 0 /\ pre.pixels = <<>>)
    => Len(_pixels) = _width_px * _height_px

\* row r of the image (row 0 at the bottom) as the file's author stored it
ContentRow(p, r) ==
  [k \in 1..FormatStride(p.bpp, p.width) |-> ContentByte(p, r, k - 1)]

\* the pixels a row of bytes decodes to, with the masks and palette of the call
DecodedRow(bytes) ==
  IF infoHeader._bitsPerPixel <= 8
  THEN PalettedRowPixels(bytes, infoHeader, d.numPixelsPerByte, d.mask, palette, <<0, 0>>)
  ELSE DirectRowPixels(bytes, infoHeader, d, <<0, 0>>)

BufferRow(r, w) == SubSeq(_pixels, (r * w) + 1, (r + 1) * w)

Decoded == pc = "returned" /\ ret = 0 /\ src.cut < 0 /\ rowReads # <<>>

\* the b-bit field of pixel i in a row of bytes that starts at file offset pos
IndexField(pos, b, i) ==
  LET perByte == 8 \div b
      shift == b * ((perByte - 1) - (i % perByte))
  IN (file[pos + (i \div perByte) + 1] \div (2^shift)) % (2^b)

\* every palette index the rows of the call hold has an entry in the palette
InPalette ==
  \/ src.bpp > 8
  \/ \A k \in 1..Len(rowReads) : \A i \in 0..(src.width - 1) :
       IndexField(rowReads[k].pos, src.bpp, i) < Len(palette)

\* C8: whether the rows are stored bottom-up (height +H) or top-down (height
\* -H, rows in reverse file order), buffer row r holds the pixels of image row
\* r counted from the bottom, pixel (col, row) at index col + row * width; so
\* the two encodings of one image decode to the same buffer.
C8_BottomUpBuffer ==
  (Decoded /\ InPalette) =>
    /\ Len(_pixels) = src.width * Abs(src.height)
    /\ \A r \in 0..(Abs(src.height) - 1) :
         BufferRow(r, src.width) = DecodedRow(ContentRow(src, r))

C8_Witness ==
  /\ Decoded /\ src.height = 0 - 2 /\ src.width = 2 /\ src.bpp = 4
  /\ BufferRow(0, 2) # BufferRow(1, 2)
  /\ BufferRow(1, 2) = DecodedRow(SubSeq(file, fileHeader._pixelOffset_bytes + 1,
                                          fileHeader._pixelOffset_bytes + 4))

\* C9: in extractPalettedPixels pixel i of a row is the palette entry whose
\* index is the b-bit field at shift b*(8/b - 1 - (i mod (8/b))) of row byte
\* (i div (8/b)); a first byte 0b00010010 at 2 bpp gives indices 0, 1, 0, 2.
C9_MostSignificantFirst ==
  (Decoded /\ src.bpp \in {1, 2, 4, 8}) =>
    /\ \A k \in 1..Len(rowReads) : \A i \in 0..(src.width - 1) :
         IndexField(rowReads[k].pos, src.bpp, i) < Len(palette) =>
           _pixels[((k - 1) * src.width) + i + 1]
             = palette[IndexField(rowReads[k].pos, src.bpp, i) + 1]
    /\ (src.bpp = 2 /\ src.width >= 4 /\ file[rowReads[1].pos + 1] = 18)
         => SubSeq(_pixels, 1, 4) = <<palette[1], palette[2], palette[1], palette[3]>>

C9_Witness ==
  /\ Decoded /\ src.bpp = 2 /\ src.width = 8 /\ src.height = 1
  /\ file[rowReads[1].pos + 1] = 18
  /\ SubSeq(_pixels, 1, 4) = <<palette[1], palette[2], palette[1], palette[3]>>
  /\ _pixels[5] = palette[(file[rowReads[1].pos + 2] \div 64) + 1]

\* C10: the row size both decoders use to advance the file position is
\* ceil(bitsPerPixel * width / 32) * 4 bytes.
C10_RowSizeIsStride ==
  pc = "rowSizeDone" =>
    d.rowSize_bytes = FormatStride(infoHeader._bitsPerPixel, infoHeader._bmpWidth_px)

\* the 32-bit little-endian word at a file offset, as its set bits
FileBits32(f, off) ==
  UNION {{i + (8 * k) : i \in ByteBits(f[off + k + 1])} : k \in 0..3}

\* the running call has passed the switch of loadBmp
Selected == \E i \in 1..Len(steps) : steps[i] = "SelectDecoder"

\* C11: 24-bit pixels are decoded with the fixed masks red 0x00FF0000, green
\* 0x0000FF00, blue 0x000000FF, alpha 0 for every header version, compression
\* and header masks: a pixel stored as bytes b0, b1, b2 becomes (b2, b1, b0, 0),
\* so [0x10, 0x20, 0x30] becomes (0x30, 0x20, 0x10, 0).
C11_FixedMasks24 ==
  (Decoded /\ src.bpp = 24) =>
    /\ infoHeader._redMask = 16..23 /\ infoHeader._greenMask = 8..15
    /\ infoHeader._blueMask = 0..7 /\ infoHeader._alphaMask = {}
    /\ \A k \in 1..Len(rowReads) : \A j \in 0..(src.width - 1) :
         _pixels[((k - 1) * src.width) + j + 1]
           = <<file[rowReads[k].pos + (3 * j) + 3], file[rowReads[k].pos + (3 * j) + 2],
               file[rowReads[k].pos + (3 * j) + 1], 0>>
    /\ (src.width >= 1
        /\ SubSeq(file, rowReads[1].pos + 1, rowReads[1].pos + 3) = <<16, 32, 48>>)
         => _pixels[1] = <<48, 32, 16, 0>>

C11_Witness ==
  /\ Decoded /\ src.bpp = 24 /\ src.hsize = 124 /\ src.comp = BI_BITFIELDS
  /\ FileBits32(file, size_bytes + BIHO_RED_MASK) = 24..31
  /\ SubSeq(file, rowReads[1].pos + 1, rowReads[1].pos + 3) = <<16, 32, 48>>
  /\ _pixels = <<<<48, 32, 16, 0>>>>

\* the lowest set bit of a non-zero mask
LowestBit(mask) == CHOOSE b \in mask : \A c \in mask : b <= c

\* the bits of the size-byte pixel j of the row stored at file offset pos
FilePixelBits(pos, j, size) ==
  UNION {{i + (8 * k) : i \in ByteBits(file[pos + (j * size) + k + 1])} : k \in 0..(size - 1)}

\* the 8-bit channel a mask selects from a pixel
MaskedChannel(raw, mask) ==
  IF mask = {} THEN 0
  ELSE SumBits({b - LowestBit(mask) : b \in {c \in raw \cap mask : c - LowestBit(mask) < 8}}, 7)

PixelUnder(raw, r, g, b, a) ==
  <<MaskedChannel(raw, r), MaskedChannel(raw, g), MaskedChannel(raw, b), MaskedChannel(raw, a)>>

\* every pixel of the running call is the file's pixel seen through the masks
DecodedUnder(r, g, b, a) ==
  \A k \in 1..Len(rowReads) : \A j \in 0..(src.width - 1) :
    _pixels[((k - 1) * src.width) + j + 1]
      = PixelUnder(FilePixelBits(rowReads[k].pos, j, src.bpp \div 8), r, g, b, a)

AppendedMasksCase ==
  /\ Selected /\ src.cut < 0
  /\ src.hsize = BITMAPINFOHEADER_SIZE_BYTES /\ src.comp = BI_BITFIELDS
  /\ src.bpp \in {16, 32}

\* C12: for a 16- or 32-bit BI_BITFIELDS image with a 40-byte header the red,
\* green and blue masks used for decoding are the little-endian words at file
\* offsets 54, 58 and 62, not the depth defaults.
C12_AppendedMasksUsed ==
  AppendedMasksCase =>
    /\ infoHeader._redMask = FileBits32(file, 54)
    /\ infoHeader._greenMask = FileBits32(file, 58)
    /\ infoHeader._blueMask = FileBits32(file, 62)
    /\ Decoded => DecodedUnder(FileBits32(file, 54), FileBits32(file, 58),
                               FileBits32(file, 62), {})

C12_Witness ==
  /\ AppendedMasksCase /\ Decoded /\ src.bpp = 16 /\ src.width = 2
  /\ infoHeader._redMask = 11..15 /\ infoHeader._greenMask = 5..10
  /\ _pixels[1] = PixelUnder(FilePixelBits(rowReads[1].pos, 0, 2), 11..15, 5..10, 0..4, {})
  /\ _pixels[1] # PixelUnder(FilePixelBits(rowReads[1].pos, 0, 2), 10..14, 5..9, 0..4, {15})

DefaultMasksCase ==
  /\ Selected /\ ~(pc = "returned" /\ ret = 0 - 1) /\ src.cut < 0
  /\ src.hsize \in SupportedSizes /\ src.comp = BI_RGB /\ src.bpp \in {16, 32}

\* the alpha mask C13 names for a header size: the depth default for 40 and
\* 52 bytes, the word at the header's alpha mask offset otherwise
AlphaMaskFor(hsize, default) ==
  IF hsize \in {BITMAPINFOHEADER_SIZE_BYTES, BITMAPV2INFOHEADER_SIZE_BYTES}
  THEN default
  ELSE FileBits32(file, size_bytes + BIHO_ALPHA_MASK)

\* C13: 16- and 32-bit BI_RGB images are decoded with the depth default RGB
\* masks (0x7C00, 0x03E0, 0x001F; 0x00FF0000, 0x0000FF00, 0x000000FF) for
\* every header size; the alpha mask is the default (0x8000; 0xFF000000) for
\* header sizes 40 and 52 and the header's own for 56, 108 and 124.
C13_DepthDefaultMasks ==
  DefaultMasksCase =>
    LET r == IF src.bpp = 16 THEN 10..14 ELSE 16..23
        g == IF src.bpp = 16 THEN 5..9 ELSE 8..15
        b == IF src.bpp = 16 THEN 0..4 ELSE 0..7
        a == AlphaMaskFor(src.hsize, IF src.bpp = 16 THEN {15} ELSE 24..31)
    IN /\ infoHeader._redMask = r /\ infoHeader._greenMask = g
       /\ infoHeader._blueMask = b /\ infoHeader._alphaMask = a
       /\ Decoded => DecodedUnder(r, g, b, a)

C13_Witness ==
  /\ DefaultMasksCase /\ Decoded /\ src.bpp = 32 /\ src.hsize = BITMAPV3INFOHEADER_SIZE_BYTES
  /\ FileBits32(file, size_bytes + BIHO_RED_MASK) = 24..31
  /\ infoHeader._redMask = 16..23 /\ infoHeader._alphaMask = 0..7
  /\ _pixels[1] = PixelUnder(FilePixelBits(rowReads[1].pos, 0, 4), 16..23, 8..15, 0..7, 0..7)
  /\ _pixels[1][4] # 0

\* extractPixels has computed its shifts in the running call
ShiftsComputed ==
  /\ pc \in {"rows", "finish", "returned"}
  /\ \E i \in 1..Len(steps) : steps[i] = "BeginPixels"

\* C14: in extractPixels the shift of every non-zero channel mask is the
\* index of the mask's lowest set bit; for a zero alpha mask the alpha shift
\* is 0 and every decoded pixel has alpha 0.
C14_ShiftIsLowestSetBit ==
  ShiftsComputed =>
    /\ infoHeader._redMask # {} => d.redShift = LowestBit(infoHeader._redMask)
    /\ infoHeader._greenMask # {} => d.greenShift = LowestBit(infoHeader._greenMask)
    /\ infoHeader._blueMask # {} => d.blueShift = LowestBit(infoHeader._blueMask)
    /\ infoHeader._alphaMask # {} => d.alphaShift = LowestBit(infoHeader._alphaMask)
    /\ infoHeader._alphaMask = {} =>
         /\ d.alphaShift = 0
         /\ \A i \in (Len(pre.pixels) + 1)..Len(_pixels) : _pixels[i][4] = 0

C14_Witness ==
  /\ ShiftsComputed /\ Decoded
  /\ infoHeader._redMask = 11..15 /\ infoHeader._greenMask = 5..10
  /\ infoHeader._blueMask = 0..4 /\ infoHeader._alphaMask = {}
  /\ d.redShift = 11 /\ d.greenShift = 5 /\ d.blueShift = 0 /\ d.alphaShift = 0
  /\ _pixels[1][1] # 0 /\ _pixels[1][4] = 0

FileI32(f, off) == AsInt32(FileBits32(f, off))

\* extractInfoHeader has just returned for a whole file with a supported header
InfoHeaderCase ==
  pc = "infoHeaderParsed" /\ src.cut < 0 /\ src.hsize \in SupportedSizes

\* C15: for a header size h in {40, 52, 56, 108, 124} extractInfoHeader fills
\* the base fields from their offsets for every h, the RGB masks only when
\* h >= 52, the alpha mask only when h >= 56, the colour-space tag only when
\* h >= 108; a field h does not introduce is left zero.
C15_FieldsOfVersion ==
  InfoHeaderCase =>
    /\ infoHeader._headerSize_bytes = FileU32(file, size_bytes + BIHO_HEADER_SIZE)
    /\ infoHeader._headerSize_bytes = src.hsize
    /\ infoHeader._bmpWidth_px = FileI32(file, size_bytes + BIHO_BMP_WIDTH)
    /\ infoHeader._bmpHeight_px = FileI32(file, size_bytes + BIHO_BMP_HEIGHT)
    /\ infoHeader._numColorPlanes = FileU16(file, size_bytes + BIHO_NUM_COLOR_PLANES)
    /\ infoHeader._bitsPerPixel = FileU16(file, size_bytes + BIHO_BITS_PER_PIXEL)
    /\ infoHeader._compression = FileU32(file, size_bytes + BIHO_COMPRESSION)
    /\ infoHeader._rawImageSize_bytes = FileU32(file, size_bytes + BIHO_RAW_IMAGE_SIZE)
    /\ infoHeader._horizontalResolution_pxPm
         = FileI32(file, size_bytes + BIHO_HORIZONTAL_RESOLUTION)
    /\ infoHeader._verticalResolution_pxPm
         = FileI32(file, size_bytes + BIHO_VERTICAL_RESOLUTION)
    /\ infoHeader._numPaletteColors = FileU32(file, size_bytes + BIHO_NUM_PALETTE_COLORS)
    /\ infoHeader._numImportantColors
         = FileU32(file, size_bytes + BIHO_NUM_IMPORTANT_COLORS)
    /\ infoHeader._redMask = (IF src.hsize >= 52
                              THEN FileBits32(file, size_bytes + BIHO_RED_MASK) ELSE {})
    /\ infoHeader._greenMask = (IF src.hsize >= 52
                                THEN FileBits32(file, size_bytes + BIHO_GREEN_MASK) ELSE {})
    /\ infoHeader._blueMask = (IF src.hsize >= 52
                               THEN FileBits32(file, size_bytes + BIHO_BLUE_MASK) ELSE {})
    /\ infoHeader._alphaMask = (IF src.hsize >= 56
                                THEN FileBits32(file, size_bytes + BIHO_ALPHA_MASK) ELSE {})
    /\ infoHeader._colorSpaceMagic
         = (IF src.hsize >= 108
            THEN FileBits32(file, size_bytes + BIHO_COLOR_SPACE_MAGIC) ELSE {})

C15_Witness ==
  /\ InfoHeaderCase /\ src.hsize = BITMAPV2INFOHEADER_SIZE_BYTES /\ src.height < 0
  /\ infoHeader._bmpHeight_px = src.height
  /\ infoHeader._horizontalResolution_pxPm = 2835 /\ infoHeader._numImportantColors = 3
  /\ infoHeader._redMask = 11..15 /\ infoHeader._alphaMask = {}
  /\ Len(file) >= 70 /\ FileBits32(file, size_bytes + BIHO_ALPHA_MASK) # {}

\* the first n bytes of a buffer read as a little-endian word: b0 + 256 * b1 + ...
LittleEndianBits(bytes, n) ==
  UNION {{i + (8 * k) : i \in ByteBits(bytes[k + 1])} : k \in 0..(n - 1)}

\* C16: the extractLittleEndian functions return the value of the first 2, 4
\* or 8 buffer bytes read as little-endian, on a little-endian host and on a
\* big-endian host alike.
C16_LittleEndianOnEveryHost ==
  pc = "extracted" => d.value = LittleEndianBits(file, d.count)

\* the running call has gone through the start of extractPalettedPixels,
\* where extractColorPalette is called
PaletteRequested == \E i \in 1..Len(steps) : steps[i] = "BeginPalettedPixels"

\* entry k (from 0) of the palette stored after the info header
FilePaletteEntry(k) ==
  LET o == size_bytes + infoHeader._headerSize_bytes + (4 * k)
  IN <<file[o + 3], file[o + 2], file[o + 1], file[o + 4]>>

\* C17: extractColorPalette reads exactly numPaletteColors 4-byte entries from
\* file offset 14 + headerSize, each (blue, green, red, alpha) becoming one
\* RGBA colour in index order, and then stops, for every count from 1 to 256.
C17_PaletteOfDeclaredCount ==
  (PaletteRequested /\ src.cut < 0 /\ infoHeader._numPaletteColors \in 1..256) =>
    /\ pc # "hang"
    /\ Len(palette) = infoHeader._numPaletteColors
    /\ \A k \in 1..Len(palette) : palette[k] = FilePaletteEntry(k - 1)

\* C18: a paletted image that declares a palette colour count of 0 is decoded
\* with a palette of 2^bitsPerPixel entries.
C18_ZeroCountMeansFullPalette ==
  (PaletteRequested /\ infoHeader._numPaletteColors = 0
     /\ infoHeader._bitsPerPixel \in 1..8)
    => Len(palette) = 2^infoHeader._bitsPerPixel

\* C19: every loadBmp call terminates, whatever the masks and the palette
\* colour count: no call enters a loop that has no exit.
C19_EveryCallTerminates == pc # "hang"

\* C20: loadBmp performs no faulting arithmetic or allocation for any header
\* field values: no division by zero, no negative size; a bad header ends in a
\* returned result.
C20_NoProcessFault == pc # "fault"

\* C21: when a seek or read inside loadBmp fails or comes back short, loadBmp
\* returns failure and produces no pixel from buffer contents that were not
\* read from the file.
C21_ShortReadFails ==
  (pc = "returned" /\ ~good) => (ret = 0 - 1 /\ _pixels = pre.pixels)

\* C22: the file opened by loadBmp is closed when loadBmp returns, on every
\* exit path: open failure, invalid magic, unsupported compression,
\* unsupported colour space and success; it is open while the call runs.
C22_FileClosedOnReturn ==
  /\ pc = "returned" => ~fileOpen
  /\ pc \in {"opened", "fileHeaderParsed", "infoHeaderParsed", "compressionValidated",
             "extractPalettedPixels", "palettedRows", "extractPixels", "rows", "finish"}
       => fileOpen

C22_Witness ==
  /\ pc = "returned" /\ ~fileOpen /\ callsLeft = 0
  /\ outcomes = {<<"ValidateCompression", 0 - 1>>, <<"Finish", 0>>}
  /\ ret = 0 - 1

\* (raw & mask) >> shift as a number, shift being the lowest set bit of the mask
FullChannel(raw, mask) ==
  IF mask = {} THEN 0 ELSE SumBits({b - LowestBit(mask) : b \in raw \cap mask}, 31)

\* C23: in extractPixels file byte k of a pixel is at bits 8k..8k+7 of the raw
\* value and every stored channel equals (raw & mask) >> shift, without
\* rescaling, for every mask the header can carry, masks wider than 8 bits
\* included.
C23_ChannelIsMaskedShift ==
  (Decoded /\ src.bpp \in {16, 24, 32}) =>
    \A k \in 1..Len(rowReads) : \A j \in 0..(src.width - 1) :
      LET raw == FilePixelBits(rowReads[k].pos, j, src.bpp \div 8)
      IN _pixels[((k - 1) * src.width) + j + 1]
           = <<FullChannel(raw, infoHeader._redMask), FullChannel(raw, infoHeader._greenMask),
               FullChannel(raw, infoHeader._blueMask), FullChannel(raw, infoHeader._alphaMask)>>

\* how many times a step occurs in the running call
RECURSIVE Occurrences(_, _)
Occurrences(seq, step) ==
  IF seq = <<>> THEN 0
  ELSE (IF Head(seq) = step THEN 1 ELSE 0) + Occurrences(Tail(seq), step)

\* C24: loadBmp returns success only after exactly one of extractPalettedPixels
\* and extractPixels has run, once, for every header size and bits-per-pixel
\* value.
C24_SuccessOnlyAfterOneDecoder ==
  (pc = "returned" /\ ret = 0) =>
    Occurrences(steps, "BeginPalettedPixels") + Occurrences(steps, "BeginPixels") = 1

\* an intact file with a 108 or 124 byte header that has both a colour space
\* other than sRGB and a compression mode other than BI_RGB / BI_BITFIELDS,
\* and whose magic has been accepted
BothDefects ==
  /\ src.magic = <<66, 77>> /\ src.cut < 0
  /\ fileHeader._fileMagic = bitmapFileMagic
  /\ src.hsize \in {BITMAPV4HEADER_SIZE_BYTES, BITMAPV5HEADER_SIZE_BYTES}
  /\ src.cs # colorSpaceSRGBMagic
  /\ src.comp \notin {BI_RGB, BI_BITFIELDS}

\* C25 (as amended): the info header is parsed without any check; the
\* compression mode is validated next, and the colour space of a 108 or 124 byte
\* header is checked only afterwards, in the switch on the header size.  A file
\* with both defects fails at the compression check, and a call that fails at
\* the colour space check has passed the compression check.
C25_CompressionCheckedFirst ==
  /\ (pc = "returned" /\ BothDefects) =>
       /\ steps = <<"LoadBmp", "ExtractFileHeader", "ExtractInfoHeader", "ValidateCompression">>
       /\ ret = 0 - 1
       /\ infoHeader._colorSpaceMagic # BitsOf(colorSpaceSRGBMagic)
  /\ (pc = "returned" /\ steps[Len(steps)] = "SelectDecoder") =>
       /\ ret = 0 - 1
       /\ SubSeq(steps, 3, 5) = <<"ExtractInfoHeader", "ValidateCompression", "SelectDecoder">>
       /\ infoHeader._compression \in {BI_RGB, BI_BITFIELDS}
       /\ infoHeader._colorSpaceMagic # BitsOf(colorSpaceSRGBMagic)

\* a file with both defects has been rejected
C25_Witness ==
  /\ pc = "returned" /\ BothDefects /\ ret = 0 - 1
  /\ src.hsize = BITMAPV4HEADER_SIZE_BYTES
  /\ steps[Len(steps)] = "ValidateCompression"

\* C25 (as stated): a file with both defects fails at the colour space check,
\* made before the compression mode is validated.
C25_ColorSpaceCheckedFirst ==
  (pc = "returned" /\ BothDefects) => "ValidateCompression" \notin {steps[i] : i \in 1..Len(steps)}

\* the file positions of the row reads of the running call, in reading order
RowPositions == [k \in 1..Len(rowReads) |-> rowReads[k].pos]

\* a completed decode whose rows hold at least one byte
RowsRead == Decoded /\ rowReads[1].n > 0

C27_OnlyLatestPixels ==
  Decoded =>
    /\ Len(_pixels) = src.width * Abs(src.height)
    /\ pre.pixels # <<>> => SubSeq(_pixels, 1, Len(pre.pixels)) # pre.pixels

\* a completed palette decode of an intact file
PaletteDecoded == Decoded /\ src.bpp \in {1, 2, 4, 8}

\* C28: every palette index computed by extractPalettedPixels is smaller than
\* the number of palette entries read by extractColorPalette, so palette[index]
\* is in bounds for every accepted header and every pixel byte.
C28_PaletteIndexInBounds ==
  PaletteDecoded =>
    \A k \in 1..Len(rowReads) : \A i \in 0..(src.width - 1) :
      IndexField(rowReads[k].pos, src.bpp, i) < Len(palette)

\* C29: drawSprite with x >= 0 and y >= 0 writes only pixels inside the
\* 160x160 screen array, and every screen pixel it writes at (x+c, y+r)
\* receives sprite pixel c + r*spriteWidth, also when the sprite is clipped at
\* the right or at the top edge of the screen.
C29_DrawSpriteClipped ==
  \A wr \in draw.writes :
    /\ wr.index \in 0..(pixelCount - 1)
    /\ LET c == (wr.index % screenWidth) - draw.x
           r == (wr.index \div screenWidth) - draw.y
       IN wr.spritePixelNum = c + (r * draw.spriteWidth)

\* the SDL key symbol each key of the game stands for
KeySymbols ==
  {<<"KEY_a", "SDLK_a">>, <<"KEY_b", "SDLK_b">>, <<"KEY_c", "SDLK_c">>,
   <<"KEY_d", "SDLK_d">>, <<"KEY_e", "SDLK_e">>, <<"KEY_f", "SDLK_f">>,
   <<"KEY_g", "SDLK_g">>, <<"KEY_h", "SDLK_h">>, <<"KEY_i", "SDLK_i">>,
   <<"KEY_j", "SDLK_j">>, <<"KEY_k", "SDLK_k">>, <<"KEY_l", "SDLK_l">>,
   <<"KEY_m", "SDLK_m">>, <<"KEY_n", "SDLK_n">>, <<"KEY_o", "SDLK_o">>,
   <<"KEY_p", "SDLK_p">>, <<"KEY_q", "SDLK_q">>, <<"KEY_r", "SDLK_r">>,
   <<"KEY_s", "SDLK_s">>, <<"KEY_t", "SDLK_t">>, <<"KEY_u", "SDLK_u">>,
   <<"KEY_v", "SDLK_v">>, <<"KEY_w", "SDLK_w">>, <<"KEY_x", "SDLK_x">>,
   <<"KEY_y", "SDLK_y">>, <<"KEY_z", "SDLK_z">>, <<"KEY_SPACE", "SDLK_SPACE">>,
   <<"KEY_BACKSPACE", "SDLK_BACKSPACE">>, <<"KEY_ENTER", "SDLK_RETURN">>, <<"KEY_LEFT", "SDLK_LEFT">>,
   <<"KEY_RIGHT", "SDLK_RIGHT">>, <<"KEY_DOWN", "SDLK_DOWN">>, <<"KEY_UP", "SDLK_UP">>}

SymbolOf(k) == (CHOOSE p \in KeySymbols : p[1] = k)[2]

\* C30: for every sequence of onKeyEvent and onUpdate calls and every key k,
\* isKeyDown(k) is true exactly when the last event for k was a key-down,
\* isKeyPressed(k) / isKeyReleased(k) exactly when a key-down / key-up for k
\* arrived since the last onUpdate; hence onUpdate leaves isKeyDown unchanged
\* and an event for a symbol that is no key's symbol changes nothing.
C30_KeyStateFollowsEvents ==
  /\ \A k \in KeyCodes :
       /\ convertSdlKeyCode(SymbolOf(k)) = k
       /\ _keys[k]._isDown = (keyLog[SymbolOf(k)].last = "SDL_KEYDOWN")
       /\ _keys[k]._isPressed = keyLog[SymbolOf(k)].down
       /\ _keys[k]._isReleased = keyLog[SymbolOf(k)].up
  /\ \A c \in SdlCodes \ {p[2] : p \in KeySymbols} : convertSdlKeyCode(c) = "KEY_COUNT"

\* ENTER is held since before the last onUpdate, UP went down and up after it,
\* and an event for F1 has arrived
C30_Witness ==
  /\ _keys["KEY_ENTER"] = [_isDown |-> TRUE, _isPressed |-> FALSE, _isReleased |-> FALSE]
  /\ _keys["KEY_UP"] = [_isDown |-> FALSE, _isPressed |-> TRUE, _isReleased |-> TRUE]
  /\ _keys["KEY_DOWN"] = [_isDown |-> FALSE, _isPressed |-> FALSE, _isReleased |-> FALSE]
  /\ keyLog["SDLK_F1"].last = "SDL_KEYDOWN"

====
